---------------------------- MODULE Spec2Model ----------------------------
(***************************************************************************)
(* ClearTrial: the studies search route (two versions: one on the neon     *)
(* tagged-template client, one on a pg Pool), its proxy to the backend and *)
(* the stats/facet route, each modelled as a request handler over a        *)
(* `studies` table; the backend's ingestion, embedding and extraction     *)
(* passes over the record store; the handlers followed query by query      *)
(* beside a writer; and the two page components, the search page and the   *)
(* filterable dashboard, with their requests in flight.                    *)
(*                                                                         *)
(* Text is a sequence of symbols.  A symbol is a one-character string      *)
(* ("a", "'", "%") or an opaque alphanumeric chunk ("RECRUITING",          *)
(* "PHASE1") that holds no quote, escape or wildcard character.  Fixed     *)
(* SQL fragments of a query are chunks too, so two query texts are equal   *)
(* exactly when their symbol sequences are.                                *)
(***************************************************************************)
EXTENDS Integers, Sequences, FiniteSets, TLC

VARIABLES
    store,      \* the studies table: a set of rows, nct_id unique
    route,      \* which handler this deployment serves
    req,        \* the last request handled (NoRequest before the first)
    sent,       \* the queries the handler sent to the store for req
    resp,       \* the response to req
    records,    \* the record store of the batch passes: trial records
    vectors,    \* the embedding vectors kept with the records
    extractions,\* the eligibility extractions kept with the records
    version,    \* the configured embedding model and extraction schema
    pass,       \* the batch pass that runs, or the last one that ran
    work,       \* what each worker of the pass is doing
    log,        \* what was ingested, rejected, started and called so far
    call,       \* the route handler that is between two of its queries
    view,       \* the state of the page component shown in the browser
    timers,     \* the page's pending timeouts
    flight,     \* the page's requests that have no response yet
    hist        \* what the user and the page did last, and the time since

vars == <<store, route, req, sent, resp,
          records, vectors, extractions, version, pass, work, log,
          call, view, timers, flight, hist>>

\* the routes read the table and leave the batch passes' state alone
pipeVars == <<records, vectors, extractions, version, pass, work, log>>

\* a handler that runs in one piece, and the batch passes, leave these alone
frontVars == <<call, view, timers, flight, hist>>

----------------------------------------------------------------------------
(* Text helpers *)

Q1 == "'"
DQ == "\""
BS == "\\"
\* what a JSON \b escape decodes to
BackspaceChar == "<BS>"

\* SQL NULL of a text or jsonb column
NULL == <<"<NULL>">>
\* SQL NULL of a jsonb column (conditions)
NULLJ == <<NULL>>
\* SQL NULL of a date column (start_date, last_update_date)
NullDate == 0

RECURSIVE Join(_, _)
\* Array.prototype.join: the texts of ss with sep between them
Join(ss, sep) ==
    IF ss = <<>> THEN <<>>
    ELSE IF Len(ss) = 1 THEN ss[1]
    ELSE ss[1] \o sep \o Join(Tail(ss), sep)

\* LOWER() and ILIKE fold the upper-case letters
LowerOf ==
    [c \in {"A", "B", "C", "D", "E", "H", "N", "O"} |->
        CASE c = "A" -> "a" [] c = "B" -> "b" [] c = "C" -> "c" [] c = "D" -> "d"
          [] c = "E" -> "e" [] c = "H" -> "h" [] c = "N" -> "n" [] c = "O" -> "o"]

Lower(c) == IF c \in DOMAIN LowerOf THEN LowerOf[c] ELSE c

\* LOWER(t)
FoldLower(t) == [i \in 1..Len(t) |-> Lower(t[i])]

RECURSIVE LikeMatch(_, _, _)
\* PostgreSQL LIKE (ci = FALSE) and ILIKE (ci = TRUE): % matches any run of
\* characters, _ any one character, backslash takes the next one literally
LikeMatch(t, p, ci) ==
    LET same(a, b) == IF ci THEN Lower(a) = Lower(b) ELSE a = b IN
    IF p = <<>> THEN t = <<>>
    ELSE IF Head(p) = "%"
        THEN \E k \in 0..Len(t) : LikeMatch(SubSeq(t, k + 1, Len(t)), Tail(p), ci)
    ELSE IF Head(p) = "_"
        THEN t # <<>> /\ LikeMatch(Tail(t), Tail(p), ci)
    ELSE IF Head(p) = BS /\ Len(p) >= 2
        THEN t # <<>> /\ same(Head(t), p[2])
             /\ LikeMatch(Tail(t), SubSeq(p, 3, Len(p)), ci)
    ELSE t # <<>> /\ same(Head(t), Head(p)) /\ LikeMatch(Tail(t), Tail(p), ci)

\* a NULL operand makes LIKE / ILIKE unknown, which WHERE treats as false
SqlLike(t, p, ci) == t # NULL /\ LikeMatch(t, p, ci)

\* t holds s as a contiguous run, character for character
IsSubstring(s, t) ==
    \E i \in 1..(Len(t) - Len(s) + 1) : SubSeq(t, i, i + Len(s) - 1) = s

RECURSIVE LexQuoted(_, _)
\* The SQL lexer on the characters that follow an opening quote: '' is a
\* quote inside the literal, a lone ' ends it.  Gives the decoded literal
\* and what is left of the text after the closing quote; end |-> FALSE when
\* the text runs out inside the literal.
LexQuoted(cs, acc) ==
    IF cs = <<>> THEN [end |-> FALSE, val |-> acc, rest |-> <<>>]
    ELSE IF Head(cs) = Q1
        THEN IF Len(cs) >= 2 /\ cs[2] = Q1
                THEN LexQuoted(SubSeq(cs, 3, Len(cs)), Append(acc, Q1))
                ELSE [end |-> TRUE, val |-> acc, rest |-> Tail(cs)]
    ELSE LexQuoted(Tail(cs), Append(acc, Head(cs)))

\* the one statement a value of this model can smuggle in
DeleteAll == "DELETE FROM studies"

\* text after a closing quote that ends the statement, runs DeleteAll as a
\* second one and comments out what the route wrote after the value
StatementTail(rest) ==
    /\ Len(rest) >= 4
    /\ rest[1] = ";" /\ rest[2] = DeleteAll /\ rest[3] = ";" /\ rest[4] = "--"

\* A literal written as ' body ' in a query.  The values of this model hold
\* no blank and, but for DeleteAll, no SQL keyword, so a literal that runs
\* past the written closing quote, or ends before it and leaves anything but
\* a StatementTail, leaves text that is no SQL: a syntax error (ok |-> FALSE).
SqlLiteral(body) ==
    LET lx == LexQuoted(body \o <<Q1>>, <<>>) IN
    IF lx.end /\ (lx.rest = <<>> \/ StatementTail(lx.rest))
    THEN [ok |-> TRUE, val |-> lx.val]
    ELSE [ok |-> FALSE, val |-> <<>>]

RECURSIVE JsonChars(_, _)
\* the characters of a JSON string after its opening double quote
JsonChars(cs, acc) ==
    IF cs = <<>> THEN [ok |-> FALSE, val |-> <<>>]
    ELSE IF Head(cs) = DQ
        THEN IF Len(cs) = 1 THEN [ok |-> TRUE, val |-> acc]
             ELSE [ok |-> FALSE, val |-> <<>>]
    ELSE IF Head(cs) = BS
        THEN IF Len(cs) < 2 THEN [ok |-> FALSE, val |-> <<>>]
             ELSE IF cs[2] \in {DQ, BS}
                THEN JsonChars(SubSeq(cs, 3, Len(cs)), Append(acc, cs[2]))
             ELSE IF cs[2] = "b"
                THEN JsonChars(SubSeq(cs, 3, Len(cs)), Append(acc, BackspaceChar))
             ELSE [ok |-> FALSE, val |-> <<>>]
    ELSE JsonChars(Tail(cs), Append(acc, Head(cs)))

\* '...'::jsonb on a text that should be one JSON string: invalid input
\* syntax (ok |-> FALSE) unless it is exactly one well-formed string
JsonbString(cs) ==
    IF cs # <<>> /\ Head(cs) = DQ THEN JsonChars(Tail(cs), <<>>)
    ELSE [ok |-> FALSE, val |-> <<>>]

RECURSIVE JsonEscape(_)
\* jsonb output escapes the double quote and the backslash of a string
JsonEscape(s) ==
    IF s = <<>> THEN <<>>
    ELSE (IF Head(s) \in {DQ, BS} THEN <<BS, Head(s)>> ELSE <<Head(s)>>)
         \o JsonEscape(Tail(s))

\* conditions::text of a jsonb array of strings: ["a", "b"]
JsonbText(arr) ==
    IF arr = NULLJ THEN NULL
    ELSE <<"[">>
         \o Join([i \in 1..Len(arr) |-> <<DQ>> \o JsonEscape(arr[i]) \o <<DQ>>],
                 <<",", " ">>)
         \o <<"]">>

\* conditions @> '"s"'::jsonb : the array holds the string s
JsonbContains(arr, s) == arr # NULLJ /\ \E i \in 1..Len(arr) : arr[i] = s

----------------------------------------------------------------------------
(* Numbers in request parameters and query parameters *)

MaxPage == 2
MaxLimit == 1
DefaultPage == 1
DefaultLimit == 20
LimitCap == 100
YearLow == 2010
YearHigh == 2026
\* inputs: a limit over the cap, a year before the byYear window, one in it
OverCap == LimitCap + 1
OldYear == YearLow - 1
SomeYear == YearLow + 10

\* the numbers a request of this model can name
Numbers ==
    (0..MaxPage) \cup (0..MaxLimit)
    \cup {DefaultPage, DefaultLimit, LimitCap, OverCap, OldYear, SomeYear}

\* String(n): the decimal numeral of n, one chunk
Numeral(n) == <<ToString(n)>>

\* parseInt on a numeral of the model
ParseInt(s) == CHOOSE n \in Numbers : Numeral(n) = s

\* searchParams.get(key) || dflt
OrDefault(s, dflt) == IF s = <<>> THEN dflt ELSE s

Min(a, b) == IF a <= b THEN a ELSE b

----------------------------------------------------------------------------
(* The studies table *)

Row(id, title, sponsor, conds, status, ph, type, class, year, upd) ==
    [nct_id |-> id, brief_title |-> title, official_title |-> title,
     lead_sponsor |-> sponsor, conditions |-> conds, overall_status |-> status,
     phase |-> ph, study_type |-> type, lead_sponsor_class |-> class,
     start_date |-> year, last_update_date |-> upd]

\* the columns both studies routes select: all but last_update_date
StudyColumns ==
    {"nct_id", "brief_title", "official_title", "lead_sponsor", "conditions",
     "overall_status", "phase", "study_type", "lead_sponsor_class", "start_date"}

SelectColumns(row) == [c \in StudyColumns |-> row[c]]

\* rows for the search routes: texts of single characters, update dates
\* that tie and that are NULL
SearchPool ==
    { Row(<<"N", "1">>, <<"a", "b">>, <<"p">>, << <<"c">> >>,
          <<"RECRUITING">>, <<"PHASE1">>, <<"INTERVENTIONAL">>, <<"INDUSTRY">>,
          SomeYear, 2),
      Row(<<"N", "2">>, <<"A">>, <<"q">>, << <<"d">>, <<"e">> >>,
          <<"RECRUITING">>, <<"PHASE2">>, <<"OBSERVATIONAL">>, <<"NIH">>,
          SomeYear, 2),
      Row(<<"N", "3">>, <<"b">>, <<"p">>, NULLJ,
          <<"COMPLETED">>, <<"PHASE1">>, <<"INTERVENTIONAL">>, <<"INDUSTRY">>,
          OldYear, 1),
      Row(<<"N", "4">>, <<"d">>, NULL, << >>,
          <<"RECRUITING">>, <<"PHASE1">>, <<"INTERVENTIONAL">>, <<"INDUSTRY">>,
          NullDate, NullDate),
      Row(<<"N", "5">>, <<"e", "a">>, <<"q">>, << <<"a">> >>,
          <<"COMPLETED">>, NULL, <<"OBSERVATIONAL">>, <<"NIH">>,
          NullDate, NullDate) }

MaxRows == 2

\* nct_id is the table's key
Stores(pool) ==
    {S \in SUBSET pool :
        /\ Cardinality(S) <= MaxRows
        /\ \A a, b \in S : a.nct_id = b.nct_id => a = b}

----------------------------------------------------------------------------
(* Requests: a URL's search parameters; a key that is absent reads <<>> *)

ParamKeys ==
    {"q", "status", "phase", "study_type", "sponsor_class", "page", "limit",
     "year", "condition", "sponsor"}

NoParams == [k \in ParamKeys |-> <<>>]

\* the keys the studies routes read
StudiesKeys == {"q", "status", "phase", "study_type", "sponsor_class", "page", "limit"}

StudiesValues ==
    [k \in ParamKeys |->
    CASE k = "q" -> {<<"a">>, <<"_">>, <<"[">>}
      [] k = "status" -> {<<"RECRUITING">>, <<"O", Q1, "B">>}
      [] k = "phase" -> {<<"PHASE1">>}
      [] k = "study_type" -> {<<"INTERVENTIONAL">>}
      [] k = "sponsor_class" -> {<<"INDUSTRY">>}
      [] k = "page" -> {Numeral(n) : n \in 0..MaxPage}
      [] k = "limit" -> {Numeral(n) : n \in 0..MaxLimit} \cup {Numeral(OverCap)}
      [] OTHER -> {}]

NoRequest == [kind |-> "none", params |-> NoParams]

Requests(keys, values) ==
    LET Dom(k) == IF k \in keys THEN values[k] \cup {<<>>} ELSE {<<>>} IN
    {[kind |-> "GET", params |-> p] :
        p \in [q : Dom("q"), status : Dom("status"), phase : Dom("phase"),
               study_type : Dom("study_type"), sponsor_class : Dom("sponsor_class"),
               page : Dom("page"), limit : Dom("limit"), year : Dom("year"),
               condition : Dom("condition"), sponsor : Dom("sponsor")]}

\* the same request again, or one with a single parameter of keys set,
\* changed or removed (the pages of this repository change one at a time)
Variants(r, keys, values) ==
    {r} \cup UNION {{[r EXCEPT !.params[k] = v] : v \in values[k] \cup {<<>>}} :
                     k \in keys}

PresentKeys(r) == {k \in ParamKeys : r.params[k] # <<>>}

----------------------------------------------------------------------------
(* What the store does with a query *)

\* One conjunct of a WHERE clause: its text as sent, and what it asks.
\* inline: arg is written into the text between quotes.  Otherwise arg is the
\* operand itself or, in a parameterised query, the number of the bound
\* parameter the text's placeholder names (Bind puts the parameter there).
Cond(text, kind, col, arg, inline) ==
    [text |-> text, kind |-> kind, col |-> col, arg |-> arg, inline |-> inline]

\* the value the store compares with
Operand(c) == IF c.inline THEN SqlLiteral(c.arg).val ELSE c.arg

\* the statement is rejected: a literal that does not lex, or (contains) a
\* jsonb literal that is no JSON
CondError(c) ==
    \/ c.inline /\ ~SqlLiteral(c.arg).ok
    \/ c.kind = "contains" /\ c.inline /\ SqlLiteral(c.arg).ok
       /\ ~JsonbString(SqlLiteral(c.arg).val).ok

SqlEq(a, b) == a # NULL /\ b # NULL /\ a = b

RowSatisfies(row, c) ==
    CASE c.kind = "eq" -> SqlEq(row[c.col], Operand(c))
      [] c.kind = "ilike5" ->
            \/ SqlLike(row.brief_title, Operand(c), TRUE)
            \/ SqlLike(row.official_title, Operand(c), TRUE)
            \/ SqlLike(row.lead_sponsor, Operand(c), TRUE)
            \/ SqlLike(JsonbText(row.conditions), Operand(c), TRUE)
            \/ SqlLike(row.nct_id, Operand(c), TRUE)
      [] c.kind = "like2" ->
            /\ SqlLike(row[c.col], <<"%", c.arg[1], "%">>, FALSE)
            /\ SqlLike(row[c.col], <<"%", c.arg[2], "%">>, FALSE)
      [] c.kind = "nullOrEq" -> row[c.col] = NULL \/ row[c.col] = Operand(c)
      [] c.kind = "year" ->
            row.start_date # NullDate /\ row.start_date = ParseInt(c.arg)
      [] c.kind = "contains" ->
            JsonbContains(row.conditions, JsonbString(Operand(c)).val)
      [] c.kind = "notNull" -> row[c.col] # NULL
      [] c.kind = "isArray" -> row.conditions # NULLJ
      [] c.kind = "yearWindow" ->
            /\ row.start_date # NullDate
            /\ row.start_date >= YearLow /\ row.start_date <= YearHigh
      [] OTHER -> FALSE

\* the rows a WHERE clause of these conjuncts keeps
Matching(S, conds) ==
    {row \in S : \A i \in 1..Len(conds) : RowSatisfies(row, conds[i])}

AnyError(conds) == \E i \in 1..Len(conds) : CondError(conds[i])

\* ORDER BY last_update_date DESC NULLS LAST puts a strictly before b
UpdatedBefore(a, b) ==
    /\ a.last_update_date # NullDate
    /\ b.last_update_date = NullDate \/ a.last_update_date > b.last_update_date

\* Every order of T the ORDER BY allows: rows that tie on last_update_date
\* come in any order, and not the same one from one execution to the next
\* (the sort is not stable and the plan depends on LIMIT and OFFSET).
Orderings(T) ==
    LET n == Cardinality(T) IN
    {s \in [1..n -> T] :
        /\ \A i, j \in 1..n : i # j => s[i] # s[j]
        /\ \A i, j \in 1..n : i < j => ~UpdatedBefore(s[j], s[i])}

\* LIMIT l OFFSET o on an ordered result
Page(s, l, o) == SubSeq(s, o + 1, Min(o + l, Len(s)))

\* the store rejects a negative LIMIT or OFFSET
LimitError(l, o) == l < 0 \/ o < 0

WhereClause(conds) ==
    IF Len(conds) > 0
    THEN <<"WHERE ">> \o Join([i \in 1..Len(conds) |-> conds[i].text], <<" AND ">>)
    ELSE <<>>

Query(text, params) == [text |-> text, params |-> params]

\* a conjunct whose text goes on, after its literal, with a second statement
Smuggles(c) ==
    c.inline /\ StatementTail(LexQuoted(c.arg \o <<Q1>>, <<>>).rest)

\* The table after the store has run a request's statements with these
\* conjuncts: a SELECT writes nothing, a smuggled DeleteAll empties the table.
Executed(S, conds) ==
    IF \E i \in 1..Len(conds) : Smuggles(conds[i]) THEN {} ELSE S

\* pool.query(text, params): the store reads $n as the n-th parameter
Bind(conds, params) ==
    [i \in 1..Len(conds) |-> [conds[i] EXCEPT !.arg = params[conds[i].arg]]]

----------------------------------------------------------------------------
(* The studies route *)

\* what both versions read from the URL
StudiesInput(r) ==
    LET page == ParseInt(OrDefault(r.params["page"], Numeral(DefaultPage)))
        limit == Min(ParseInt(OrDefault(r.params["limit"], Numeral(DefaultLimit))),
                     LimitCap)
    IN  [q |-> r.params["q"], status |-> r.params["status"],
         phase |-> r.params["phase"], studyType |-> r.params["study_type"],
         sponsorClass |-> r.params["sponsor_class"],
         page |-> page, limit |-> limit, offset |-> (page - 1) * limit]

\* the five-column text search, with x written where the pattern goes
IlikeText(x) ==
    <<"(brief_title ILIKE ">> \o x \o <<" OR official_title ILIKE ">> \o x
    \o <<" OR lead_sponsor ILIKE ">> \o x \o <<" OR conditions::text ILIKE ">> \o x
    \o <<" OR nct_id ILIKE ">> \o x \o <<")">>

searchTerm(q) == <<"%">> \o q \o <<"%">>

Quoted(v) == <<Q1>> \o v \o <<Q1>>

Placeholder(i) == <<"$" \o ToString(i)>>

StudyFields ==
    <<"nct_id, brief_title, official_title, overall_status, study_type, phase, conditions, interventions, brief_summary, eligibility_criteria, eligibility_sex, eligibility_min_age, eligibility_max_age, enrollment_count, start_date, completion_date, lead_sponsor, lead_sponsor_class, locations">>

OrderBy == <<" ORDER BY last_update_date DESC NULLS LAST">>

OkResponse(studies, total, page, limit) ==
    [status |-> 200, keys |-> {"studies", "total", "page", "limit"},
     error |-> <<>>, studies |-> studies, total |-> total,
     page |-> page, limit |-> limit]

NoResponse ==
    [status |-> 0, keys |-> {}, error |-> <<>>, studies |-> <<>>, total |-> 0,
     page |-> 0, limit |-> 0]

\* the rows of a page as the response carries them
Studies(rows) == [i \in 1..Len(rows) |-> SelectColumns(rows[i])]

(* neon version: values are written into the WHERE text *)

NeonConditions(in) ==
    (IF in.q # <<>>
        THEN <<Cond(IlikeText(Quoted(searchTerm(in.q))), "ilike5", "",
                    searchTerm(in.q), TRUE)>>
        ELSE <<>>)
    \o (IF in.status # <<>>
        THEN <<Cond(<<"overall_status = ">> \o Quoted(in.status), "eq",
                    "overall_status", in.status, TRUE)>>
        ELSE <<>>)
    \o (IF in.phase # <<>>
        THEN <<Cond(<<"phase = ">> \o Quoted(in.phase), "eq", "phase",
                    in.phase, TRUE)>>
        ELSE <<>>)
    \o (IF in.studyType # <<>>
        THEN <<Cond(<<"study_type = ">> \o Quoted(in.studyType), "eq",
                    "study_type", in.studyType, TRUE)>>
        ELSE <<>>)
    \o (IF in.sponsorClass # <<>>
        THEN <<Cond(<<"lead_sponsor_class = ">> \o Quoted(in.sponsorClass), "eq",
                    "lead_sponsor_class", in.sponsorClass, TRUE)>>
        ELSE <<>>)

NeonCountQuery(conds) ==
    Query(<<"SELECT COUNT(*)::int as count FROM studies ">> \o WhereClause(conds),
          <<>>)

NeonFetchQuery(conds, limit, offset) ==
    Query(<<"SELECT ">> \o StudyFields \o <<" FROM studies ">> \o WhereClause(conds)
          \o OrderBy \o <<" LIMIT ">> \o Placeholder(1)
          \o <<" OFFSET ">> \o Placeholder(2),
          <<Numeral(limit), Numeral(offset)>>)

NeonFailure(page, limit) ==
    [status |-> 500, keys |-> {"error", "studies", "total", "page", "limit"},
     error |-> <<"Database error">>, studies |-> <<>>, total |-> 0,
     page |-> page, limit |-> limit]

(* pg version: values are bound parameters *)

\* row.start_date?.toISOString?.()?.split("T")[0] || row.start_date, on a
\* date this model keeps as its year
IsoDate(d) == IF d = NullDate THEN NULL ELSE Numeral(d)

\* studiesResult.rows.map(...)
PgStudies(rows) ==
    [i \in 1..Len(rows) |->
        [SelectColumns(rows[i]) EXCEPT !.start_date = IsoDate(@)]]

PgPushText(b, q) ==
    IF q = <<>> THEN b
    ELSE [conditions |->
            Append(b.conditions,
                   Cond(IlikeText(Placeholder(b.paramIndex)), "ilike5", "",
                        b.paramIndex, FALSE)),
          params |-> Append(b.params, searchTerm(q)),
          paramIndex |-> b.paramIndex + 1]

\* the same push with the parameter counter left where it was
PgPushFilterStuck(b, col, v) ==
    IF v = <<>> THEN b
    ELSE [conditions |->
            Append(b.conditions,
                   Cond(<<col \o " = ">> \o Placeholder(b.paramIndex), "eq", col,
                        b.paramIndex, FALSE)),
          params |-> Append(b.params, v),
          paramIndex |-> b.paramIndex]

PgPushFilter(b, col, v) ==
    IF v = <<>> THEN b
    ELSE [conditions |->
            Append(b.conditions,
                   Cond(<<col \o " = ">> \o Placeholder(b.paramIndex), "eq", col,
                        b.paramIndex, FALSE)),
          params |-> Append(b.params, v),
          paramIndex |-> b.paramIndex + 1]

PgConditions(in) ==
    PgPushFilter(
      PgPushFilter(
        PgPushFilter(
          PgPushFilter(
            PgPushText([conditions |-> <<>>, params |-> <<>>, paramIndex |-> 1],
                       in.q),
            "overall_status", in.status),
          "phase", in.phase),
        "study_type", in.studyType),
      "lead_sponsor_class", in.sponsorClass)

PgCountQuery(b) ==
    Query(<<"SELECT COUNT(*) FROM studies ">> \o WhereClause(b.conditions), b.params)

PgFetchQuery(b, limit, offset) ==
    Query(<<"SELECT ">> \o StudyFields \o <<" FROM studies ">>
          \o WhereClause(b.conditions) \o OrderBy
          \o <<" LIMIT ">> \o Placeholder(b.paramIndex)
          \o <<" OFFSET ">> \o Placeholder(b.paramIndex + 1),
          b.params \o <<Numeral(limit), Numeral(offset)>>)

\* a catch branch that answers like an empty page
PgFailureSilent ==
    [status |-> 200, keys |-> {"studies", "total"},
     error |-> <<>>, studies |-> <<>>, total |-> 0,
     page |-> 0, limit |-> 0]

PgFailure ==
    [status |-> 500, keys |-> {"error", "studies", "total"},
     error |-> <<"Database error">>, studies |-> <<>>, total |-> 0,
     page |-> 0, limit |-> 0]

----------------------------------------------------------------------------
(* The stats route.  sql.unsafe(text) is taken to run text as one query, as
   the route's use of its result (rows, [0]?.count) supposes. *)

StatsKeys == {"phase", "status", "year", "condition", "sponsor"}

\* condition names in the table, character by character
CondPlain == <<"g", "o", "u", "t">>
CondQuote == <<"O", Q1, "B", "r">>
CondDouble == <<"a", DQ, "b", "c">>
CondSlash == <<"a", BS, "b", "c">>
CondNormal == <<"N", "o", "r", "m", "a", "l">>
CondShort == <<"f", "l", "u">>
\* a value written to end the literal and the statement it is put in
CondInject == <<"x", DQ, Q1, ";", DeleteAll, ";", "--">>

StatsPool ==
    { Row(<<"N", "1">>, <<"a">>, <<"p">>, <<CondPlain, CondQuote>>,
          <<"RECRUITING">>, <<"PHASE1">>, <<"INTERVENTIONAL">>, <<"INDUSTRY">>,
          SomeYear, 2),
      Row(<<"N", "2">>, <<"b">>, <<"q">>, <<CondPlain>>,
          <<"COMPLETED">>, <<"PHASE1", "/", "PHASE2">>, <<"INTERVENTIONAL">>,
          <<"NIH">>, OldYear, 2),
      Row(<<"N", "3">>, <<"c">>, NULL, NULLJ,
          NULL, NULL, <<"OBSERVATIONAL">>, NULL,
          NullDate, 1),
      Row(<<"N", "4">>, <<"d">>, <<"p">>, <<CondDouble, CondNormal>>,
          <<"AVAILABLE">>, <<"EARLY_PHASE1">>, <<"EXPANDED_ACCESS">>,
          <<"OTHER_GOV">>, SomeYear, NullDate),
      Row(<<"N", "5">>, <<"e">>, <<"q">>, <<CondSlash, CondShort>>,
          <<"RECRUITING">>, <<"NA">>, <<"OBSERVATIONAL">>, <<"INDIV">>,
          SomeYear, NullDate) }

StatsValues ==
    [k \in ParamKeys |->
    CASE k = "phase" -> {<<"Phase 1">>, <<"Phase 1/2">>, <<"Not Applicable">>}
      [] k = "status" -> {<<"Recruiting">>, <<"Completed">>, <<"RECRUITING">>}
      [] k = "year" -> {Numeral(SomeYear), Numeral(OldYear)}
      [] k = "condition" -> {CondPlain, CondQuote, CondDouble, CondSlash, CondInject}
      [] k = "sponsor" -> {<<"Industry">>, <<"NIH">>}
      [] OTHER -> {}]

phaseMap ==
    ("Early Phase 1" :> "EARLY_PHASE1") @@ ("Phase 1" :> "PHASE1")
    @@ ("Phase 2" :> "PHASE2") @@ ("Phase 3" :> "PHASE3") @@ ("Phase 4" :> "PHASE4")

statusMap ==
    ("Recruiting" :> "RECRUITING") @@ ("Completed" :> "COMPLETED")
    @@ ("Active" :> "ACTIVE_NOT_RECRUITING")
    @@ ("Not Yet Recruiting" :> "NOT_YET_RECRUITING")
    @@ ("Terminated" :> "TERMINATED") @@ ("Withdrawn" :> "WITHDRAWN")
    @@ ("Suspended" :> "SUSPENDED")
    @@ ("By Invitation" :> "ENROLLING_BY_INVITATION") @@ ("Unknown" :> "UNKNOWN")

sponsorMap ==
    ("Industry" :> "INDUSTRY") @@ ("NIH" :> "NIH") @@ ("Federal" :> "FED")
    @@ ("Academic/Other" :> "OTHER") @@ ("Network" :> "NETWORK")

\* map[v] of a Record<string, string>: undefined (here <<>>) off the map
Lookup(map, v) ==
    IF Len(v) = 1 /\ v[1] \in DOMAIN map THEN <<map[v[1]]>> ELSE <<>>

\* the value put into the query text as it came
ReplaceQuotesNot(v) == v

RECURSIVE ReplaceQuotes(_)
\* v.replace(/'/g, "''")
ReplaceQuotes(v) ==
    IF v = <<>> THEN <<>>
    ELSE (IF Head(v) = Q1 THEN <<Q1, Q1>> ELSE <<Head(v)>>) \o ReplaceQuotes(Tail(v))

Like2(a, b) ==
    Cond(<<"(phase LIKE '%", a, "%' AND phase LIKE '%", b, "%')">>, "like2",
         "phase", <<a, b>>, FALSE)

PhaseCondition(v) ==
    IF v = <<>> THEN <<>>
    ELSE IF v = <<"Phase 1/2">> THEN <<Like2("PHASE1", "PHASE2")>>
    ELSE IF v = <<"Phase 2/3">> THEN <<Like2("PHASE2", "PHASE3")>>
    ELSE IF v = <<"Not Applicable">>
        THEN <<Cond(<<"(phase IS NULL OR phase = 'NA')">>, "nullOrEq", "phase",
                    <<"NA">>, FALSE)>>
    ELSE LET dbPhase == Lookup(phaseMap, v) IN
         IF dbPhase # <<>>
         THEN <<Cond(<<"phase = ">> \o Quoted(dbPhase), "eq", "phase", dbPhase, TRUE)>>
         ELSE <<>>

StatusCondition(v) ==
    LET dbStatus == IF v = <<>> THEN <<>> ELSE Lookup(statusMap, v) IN
    IF dbStatus # <<>>
    THEN <<Cond(<<"overall_status = ">> \o Quoted(dbStatus), "eq",
                "overall_status", dbStatus, TRUE)>>
    ELSE <<>>

YearCondition(v) ==
    IF v = <<>> THEN <<>>
    ELSE <<Cond(<<"EXTRACT(YEAR FROM start_date) = ">> \o Numeral(ParseInt(v)),
                "year", "start_date", v, FALSE)>>

ConditionCondition(v) ==
    IF v = <<>> THEN <<>>
    ELSE <<Cond(<<"conditions @> ", Q1, DQ>> \o ReplaceQuotes(v)
                \o <<DQ, Q1, "::jsonb">>,
                "contains", "conditions", <<DQ>> \o ReplaceQuotes(v) \o <<DQ>>,
                TRUE)>>

SponsorCondition(v) ==
    LET dbSponsor == IF v = <<>> THEN <<>> ELSE Lookup(sponsorMap, v) IN
    IF dbSponsor # <<>>
    THEN <<Cond(<<"lead_sponsor_class = ">> \o Quoted(dbSponsor), "eq",
                "lead_sponsor_class", dbSponsor, TRUE)>>
    ELSE <<>>

\* the conditions array of the stats route for request r
StatsConditions(r) ==
    PhaseCondition(r.params["phase"]) \o StatusCondition(r.params["status"])
    \o YearCondition(r.params["year"]) \o ConditionCondition(r.params["condition"])
    \o SponsorCondition(r.params["sponsor"])

(* the seven queries *)

StatusLimit == 8
ConditionsLimit == 10
SponsorLimit == 5

Healthy == <<"h", "e", "a", "l", "t", "h", "y">>
Volunteer == <<" ", "v", "o", "l", "u", "n", "t", "e", "e", "r">>

\* the condition names the top-conditions query leaves out
ExcludedConditions ==
    { Healthy, Healthy \o Volunteer \o <<"s">>, Healthy \o Volunteer,
      Healthy \o <<" ", "a", "d", "u", "l", "t", "s">>,
      Healthy \o <<" ", "p", "a", "r", "t", "i", "c", "i", "p", "a", "n", "t", "s">>,
      <<"n", "o", "r", "m", "a", "l">>,
      <<"d", "i", "s", "e", "a", "s", "e">>,
      <<"d", "i", "s", "e", "a", "s", "e", "s">> }

\* the orders in which a scan of the table can meet its rows
Scans(S) ==
    {s \in [1..Cardinality(S) -> S] :
        \A i, j \in 1..Cardinality(S) : i # j => s[i] # s[j]}

ScanIndex(scan, row) == CHOOSE i \in 1..Len(scan) : scan[i] = row

\* the first place of the scan that holds a row of T
FirstIn(scan, T) ==
    CHOOSE i \in 1..Len(scan) :
        scan[i] \in T /\ \A j \in 1..(i - 1) : scan[j] \notin T

\* ORDER BY ... LIMIT limit: the groups in the order before (the pairs
\* <<g, h>> with g ahead of h), cut at limit
Ranked(groups, before, limit) ==
    LET n == Cardinality(groups)
        s == CHOOSE q \in [1..n -> groups] :
                /\ \A i, j \in 1..n : i # j => q[i] # q[j]
                /\ \A i, j \in 1..n : i < j => <<q[i], q[j]>> \in before
    IN  SubSeq(s, 1, Min(limit, n))

\* CASE overall_status WHEN ... ELSE COALESCE(overall_status, 'Unknown')
StatusName(code) ==
    CASE code = <<"RECRUITING">> -> <<"Recruiting">>
      [] code = <<"COMPLETED">> -> <<"Completed">>
      [] code = <<"ACTIVE_NOT_RECRUITING">> -> <<"Active">>
      [] code = <<"NOT_YET_RECRUITING">> -> <<"Not Yet Recruiting">>
      [] code = <<"TERMINATED">> -> <<"Terminated">>
      [] code = <<"WITHDRAWN">> -> <<"Withdrawn">>
      [] code = <<"SUSPENDED">> -> <<"Suspended">>
      [] code = <<"ENROLLING_BY_INVITATION">> -> <<"By Invitation">>
      [] code = <<"UNKNOWN">> -> <<"Unknown">>
      [] OTHER -> IF code = NULL THEN <<"Unknown">> ELSE code

\* the CASE of the phase breakdown, its WHENs in order
PhaseName(ph) ==
    IF SqlEq(ph, <<"PHASE1">>) THEN <<"Phase 1">>
    ELSE IF SqlEq(ph, <<"PHASE2">>) THEN <<"Phase 2">>
    ELSE IF SqlEq(ph, <<"PHASE3">>) THEN <<"Phase 3">>
    ELSE IF SqlEq(ph, <<"PHASE4">>) THEN <<"Phase 4">>
    ELSE IF SqlEq(ph, <<"EARLY_PHASE1">>) THEN <<"Early Phase 1">>
    ELSE IF SqlLike(ph, <<"%", "PHASE1", "%">>, FALSE)
            /\ SqlLike(ph, <<"%", "PHASE2", "%">>, FALSE) THEN <<"Phase 1/2">>
    ELSE IF SqlLike(ph, <<"%", "PHASE2", "%">>, FALSE)
            /\ SqlLike(ph, <<"%", "PHASE3", "%">>, FALSE) THEN <<"Phase 2/3">>
    ELSE IF ph = NULL \/ ph = <<"NA">> THEN <<"Not Applicable">>
    ELSE <<"Other">>

\* ORDER BY CASE name WHEN ... of the phase breakdown
PhaseOrder(name) ==
    CASE name = <<"Early Phase 1">> -> 1
      [] name = <<"Phase 1">> -> 2
      [] name = <<"Phase 1/2">> -> 3
      [] name = <<"Phase 2">> -> 4
      [] name = <<"Phase 2/3">> -> 5
      [] name = <<"Phase 3">> -> 6
      [] name = <<"Phase 4">> -> 7
      [] name = <<"Not Applicable">> -> 8
      [] OTHER -> 9

\* CASE lead_sponsor_class WHEN ... ELSE 'Other'
SponsorName(class) ==
    CASE class = <<"INDUSTRY">> -> <<"Industry">>
      [] class = <<"NIH">> -> <<"NIH">>
      [] class = <<"FED">> -> <<"Federal">>
      [] class = <<"OTHER">> -> <<"Academic/Other">>
      [] class = <<"NETWORK">> -> <<"Network">>
      [] OTHER -> <<"Other">>

NotNullStatus ==
    Cond(<<"overall_status IS NOT NULL">>, "notNull", "overall_status", <<>>, FALSE)

IsRecruiting ==
    Cond(<<"overall_status = 'RECRUITING'">>, "eq", "overall_status",
         <<"RECRUITING">>, FALSE)

IsArray ==
    Cond(<<"conditions IS NOT NULL AND jsonb_typeof(conditions) = 'array'">>,
         "isArray", "conditions", <<>>, FALSE)

InYearWindow ==
    Cond(<<"start_date IS NOT NULL AND EXTRACT(YEAR FROM start_date) >= 2010 AND EXTRACT(YEAR FROM start_date) <= 2026">>,
         "yearWindow", "start_date", <<>>, FALSE)

\* status breakdown: GROUP BY overall_status ORDER BY value DESC LIMIT 8;
\* groups of one value come in the order the scan met them
StatusBreakdown(T, scan) ==
    LET Group(g) == {row \in T : row.overall_status = g}
        Value(g) == Cardinality(Group(g))
        Before(g, h) ==
            \/ Value(g) > Value(h)
            \/ Value(g) = Value(h) /\ FirstIn(scan, Group(g)) < FirstIn(scan, Group(h))
        top == LET G == {row.overall_status : row \in T} IN
               Ranked(G, {p \in G \X G : Before(p[1], p[2])}, StatusLimit)
    IN  [i \in 1..Len(top) |-> [name |-> StatusName(top[i]), value |-> Value(top[i])]]

\* phase breakdown: grouped by phase, then by name, in the fixed name order
PhaseBreakdown(T) ==
    LET Value(n) == Cardinality({row \in T : PhaseName(row.phase) = n})
        Before(n, m) == PhaseOrder(n) < PhaseOrder(m)
        all == LET G == {PhaseName(row.phase) : row \in T} IN
               Ranked(G, {p \in G \X G : Before(p[1], p[2])}, Cardinality(T))
    IN  [i \in 1..Len(all) |-> [name |-> all[i], value |-> Value(all[i])]]

\* top conditions: one line per row and array element, the excluded and the
\* short names dropped, GROUP BY condition ORDER BY value DESC LIMIT 10
TopConditions(T, scan) ==
    LET Kept(c) == FoldLower(c) \notin ExcludedConditions /\ Len(c) > 3
        lines == UNION {{<<row, i>> : i \in {k \in 1..Len(row.conditions) :
                                                Kept(row.conditions[k])}} :
                        row \in T}
        Name(l) == l[1].conditions[l[2]]
        Value(g) == Cardinality({l \in lines : Name(l) = g})
        Sooner(l, m) ==
            \/ ScanIndex(scan, l[1]) < ScanIndex(scan, m[1])
            \/ l[1] = m[1] /\ l[2] <= m[2]
        First(g) == CHOOSE l \in lines :
                        Name(l) = g /\ \A m \in lines : Name(m) = g => Sooner(l, m)
        Before(g, h) ==
            \/ Value(g) > Value(h)
            \/ Value(g) = Value(h) /\ g # h /\ Sooner(First(g), First(h))
        top == LET G == {Name(l) : l \in lines} IN
               Ranked(G, {p \in G \X G : Before(p[1], p[2])}, ConditionsLimit)
    IN  [i \in 1..Len(top) |-> [name |-> top[i], value |-> Value(top[i])]]

\* sponsor breakdown: GROUP BY lead_sponsor_class ORDER BY value DESC LIMIT 5
SponsorBreakdown(T, scan) ==
    LET Group(g) == {row \in T : row.lead_sponsor_class = g}
        Value(g) == Cardinality(Group(g))
        Before(g, h) ==
            \/ Value(g) > Value(h)
            \/ Value(g) = Value(h) /\ FirstIn(scan, Group(g)) < FirstIn(scan, Group(h))
        top == LET G == {row.lead_sponsor_class : row \in T} IN
               Ranked(G, {p \in G \X G : Before(p[1], p[2])}, SponsorLimit)
    IN  [i \in 1..Len(top) |-> [name |-> SponsorName(top[i]), value |-> Value(top[i])]]

\* studies by year: GROUP BY 1 ORDER BY 1
YearBreakdown(T) ==
    LET Value(y) == Cardinality({row \in T : row.start_date = y})
        Before(y, z) == y < z
        all == LET G == {row.start_date : row \in T} IN
               Ranked(G, {p \in G \X G : Before(p[1], p[2])}, Cardinality(T))
    IN  [i \in 1..Len(all) |-> [year |-> all[i], count |-> Value(all[i])]]

StatsQuery(head, conds, tail) == Query(head \o WhereClause(conds) \o tail, <<>>)

\* the seven queries of one request, in the order the route sends them
StatsQueries(conds) ==
    << StatsQuery(<<"SELECT COUNT(*)::int as count FROM studies ">>, conds, <<>>),
       StatsQuery(<<"SELECT COUNT(*)::int as count FROM studies ">>,
                  conds \o <<IsRecruiting>>, <<>>),
       StatsQuery(<<"SELECT CASE overall_status ... END as name, COUNT(*)::int as value FROM studies ">>,
                  conds \o <<NotNullStatus>>,
                  <<" GROUP BY overall_status ORDER BY value DESC LIMIT 8">>),
       StatsQuery(<<"SELECT name, SUM(value)::int as value FROM (SELECT CASE ... END as name, COUNT(*)::int as value FROM studies ">>,
                  conds,
                  <<" GROUP BY phase) sub GROUP BY name ORDER BY CASE name ... END">>),
       StatsQuery(<<"SELECT condition as name, COUNT(*)::int as value FROM studies, jsonb_array_elements_text(conditions) as condition ">>,
                  conds \o <<IsArray>>,
                  <<" AND LOWER(condition) NOT IN (...) AND LENGTH(condition) > 3 GROUP BY condition ORDER BY value DESC LIMIT 10">>),
       StatsQuery(<<"SELECT CASE lead_sponsor_class ... END as name, COUNT(*)::int as value FROM studies ">>,
                  conds,
                  <<" GROUP BY lead_sponsor_class ORDER BY value DESC LIMIT 5">>),
       StatsQuery(<<"SELECT EXTRACT(YEAR FROM start_date)::int as year, COUNT(*)::int as count FROM studies ">>,
                  conds \o <<InYearWindow>>,
                  <<" GROUP BY 1 ORDER BY 1">>) >>

\* The body of a successful stats response; seen[i] is the table as the
\* i-th of the seven queries found it.
StatsResponseOver(r, seen, conds, scan) ==
    LET topConditions == TopConditions(Matching(seen[5], conds \o <<IsArray>>), scan) IN
    [status |-> 200,
     keys |-> {"total", "recruiting", "topCondition", "byStatus", "byPhase",
               "topConditions", "bySponsor", "byYear", "filters"},
     total |-> Cardinality(Matching(seen[1], conds)),
     recruiting |-> Cardinality(Matching(seen[2], conds \o <<IsRecruiting>>)),
     topCondition |-> IF Len(topConditions) > 0 THEN topConditions[1].name
                      ELSE <<"N/A">>,
     byStatus |-> StatusBreakdown(Matching(seen[3], conds \o <<NotNullStatus>>), scan),
     byPhase |-> PhaseBreakdown(Matching(seen[4], conds)),
     topConditions |-> topConditions,
     bySponsor |-> SponsorBreakdown(Matching(seen[6], conds), scan),
     byYear |-> YearBreakdown(Matching(seen[7], conds \o <<InYearWindow>>)),
     filters |-> [k \in StatsKeys |-> r.params[k]]]

\* the response when nothing writes to the table during the request
StatsResponse(r, S, conds, scan) ==
    StatsResponseOver(r, [i \in 1..7 |-> S], conds, scan)

StatsFailure ==
    [status |-> 500, keys |-> {"error", "details"},
     error |-> <<"Failed to fetch stats">>]

----------------------------------------------------------------------------
(* The batch passes of the backend: ingestion (canonicalizer), embedding    *)
(* and eligibility extraction over the record store.  The backend's         *)
(* programs (ingest.py, parse_elig.py) are not among the sources; this part *)
(* follows the design's description of them.  The record store is kept      *)
(* apart from the table the routes read, which is fixed in their runs.      *)

NoId == 0
NoText == <<>>

\* bounds of the runs explored: the ingestions, passes and upgrades of a
\* run, and the versions configured
MaxEvents == 5
MaxVersion == 2
NumWorkers == 2

\* the attempts an embedding call is given, and the corrective follow-ups
\* an extraction is given
MaxAttempts == 2
MaxRetries == 2

Workers == 1..NumWorkers

Raw(id, title, elig, enroll) ==
    [id |-> id, title |-> title, elig |-> elig, enroll |-> enroll]

\* the raw records the source feed may yield: record 1 with another title,
\* another eligibility text or another enrollment count, record 2 without
\* and with eligibility text, and a record without identifier
Feed ==
    { Raw(1, <<1>>, <<3>>, 10), Raw(1, <<2>>, <<3>>, 10), Raw(1, <<1>>, <<4>>, 10),
      Raw(1, <<1>>, <<3>>, 20), Raw(2, <<1>>, NoText, 10), Raw(2, <<1>>, <<5>>, 10),
      Raw(NoId, <<1>>, <<3>>, 10) }

Ids == {raw.id : raw \in Feed} \ {NoId}

\* title and eligibility text, the parts of the canonical text kept here
CanonicalText(title, elig) == title \o elig

HashBase == 7

RECURSIVE Hash(_)
\* a content hash: texts of symbols 1..HashBase-1 get distinct values
Hash(t) == IF t = <<>> THEN 0 ELSE Head(t) + HashBase * Hash(Tail(t))

Rejected == [id |-> NoId]

\* a canonicalizer whose hashes cover the enrollment count as well
normalizeAllFields(raw) ==
    IF raw.id = NoId THEN Rejected
    ELSE [id |-> raw.id, title |-> raw.title, elig |-> raw.elig,
          enroll |-> raw.enroll,
          hash |-> Hash(CanonicalText(raw.title, raw.elig)) + raw.enroll,
          eligHash |-> Hash(raw.elig) + raw.enroll]

\* normalize(raw) -> TrialRecord | Rejected
normalize(raw) ==
    IF raw.id = NoId THEN Rejected
    ELSE [id |-> raw.id, title |-> raw.title, elig |-> raw.elig,
          enroll |-> raw.enroll,
          hash |-> Hash(CanonicalText(raw.title, raw.elig)),
          eligHash |-> Hash(raw.elig)]

\* an insert that keeps what the store holds
Insert(S, rec) == S \cup {rec}

\* upsert keyed on the identifier
Upsert(S, rec) == {r \in S : r.id # rec.id} \cup {rec}

RecordOf(id) == CHOOSE r \in records : r.id = id

\* the identifiers of a batch, in ascending order
Batch(S) ==
    LET ids == {r.id : r \in S}
        n == Cardinality(ids)
    IN  CHOOSE s \in [1..n -> ids] : \A i, j \in 1..n : i < j => s[i] < s[j]

NoPass ==
    [kind |-> "none", running |-> FALSE, todo |-> <<>>,
     outcome |-> [i \in Ids |-> "none"], calls |-> [i \in Ids |-> 0]]

Idle == [id |-> NoId, text |-> <<>>, hash |-> 0, tries |-> 0]

NoLog ==
    [events |-> 0, rejected |-> 0,
     lastRaw |-> [i \in Ids |-> Raw(NoId, <<>>, <<>>, 0)],
     runs |-> [i \in Ids |-> 0]]

\* no handler in progress, no page open
NoCall == [at |-> 0, r |-> NoRequest, seen |-> <<>>]
NoView == [page |-> "none"]
NoHist == [event |-> "none"]

InitFrontVars ==
    /\ call = NoCall
    /\ view = NoView
    /\ timers = {}
    /\ flight = {}
    /\ hist = NoHist

InitPipelineVars ==
    /\ records = {}
    /\ vectors = {}
    /\ extractions = {}
    /\ version = [model |-> 1, schema |-> 1]
    /\ pass = NoPass
    /\ work = [w \in Workers |-> Idle]
    /\ log = NoLog

\* one raw record through the canonicalizer
Ingest ==
    /\ route = "pipeline"
    /\ log.events < MaxEvents
    /\ \E raw \in Feed :
        LET rec == normalize(raw)
            sameElig == \E r \in records : r.id = raw.id /\ r.elig = raw.elig
        IN  IF rec = Rejected
            THEN /\ records' = records
                 /\ log' = [log EXCEPT !.events = @ + 1, !.rejected = @ + 1]
            ELSE /\ records' = Upsert(records, rec)
                 /\ log' = [log EXCEPT !.events = @ + 1,
                                       !.lastRaw[raw.id] = raw,
                                       !.runs[raw.id] = IF sameElig THEN @ ELSE 0]
    /\ UNCHANGED <<frontVars, store, route, req, sent, resp,
                   vectors, extractions, version, pass, work>>

\* a new embedding model or extraction schema is configured between passes
Upgrade ==
    /\ route = "pipeline"
    /\ ~pass.running
    /\ log.events < MaxEvents
    /\ \E k \in {"model", "schema"} :
        /\ version[k] < MaxVersion
        /\ version' = [version EXCEPT ![k] = @ + 1]
    /\ log' = [log EXCEPT !.events = @ + 1]
    /\ UNCHANGED <<frontVars, store, route, req, sent, resp,
                   records, vectors, extractions, pass, work>>

\* an embedding or extraction pass starts over the records of the store
StartPass ==
    /\ route = "pipeline"
    /\ ~pass.running
    /\ log.events < MaxEvents
    /\ records # {}
    /\ \E kind \in {"embed", "extract"} :
        pass' = [kind |-> kind, running |-> TRUE, todo |-> Batch(records),
                 outcome |-> [i \in Ids |->
                                IF \E r \in records : r.id = i THEN "todo" ELSE "none"],
                 calls |-> [i \in Ids |-> 0]]
    /\ log' = [log EXCEPT !.events = @ + 1]
    /\ UNCHANGED <<frontVars, store, route, req, sent, resp,
                   records, vectors, extractions, version, work>>

(* embedding *)

\* the vector the capability returns for a text under a model version
Embedding(text, model) == [of |-> text, by |-> model]

\* a gate that compares the vector's hash with the wrong one of the record
EmbeddingFreshByElig(rec) ==
    \E v \in vectors :
        v.id = rec.id /\ v.version = version.model /\ v.hash = rec.eligHash

\* the record has a current vector computed at its canonical-text hash
EmbeddingFresh(rec) ==
    \E v \in vectors :
        v.id = rec.id /\ v.version = version.model /\ v.hash = rec.hash

\* the new vector replaces the record's vectors, of this or an earlier model
Supersede(V, v) == {u \in V : u.id # v.id} \cup {v}

\* ensureEmbedding, up to the external call
EmbedTake(w) ==
    /\ route = "pipeline"
    /\ pass.running /\ pass.kind = "embed"
    /\ work[w] = Idle
    /\ pass.todo # <<>>
    /\ LET id == Head(pass.todo)
           rec == RecordOf(id)
       IN  IF EmbeddingFresh(rec)
           THEN /\ pass' = [pass EXCEPT !.todo = Tail(@), !.outcome[id] = "done"]
                /\ work' = work
           ELSE /\ pass' = [pass EXCEPT !.todo = Tail(@), !.calls[id] = 1]
                /\ work' = [work EXCEPT ![w] =
                              [id |-> id, text |-> CanonicalText(rec.title, rec.elig),
                               hash |-> rec.hash, tries |-> 1]]
    /\ UNCHANGED <<frontVars, store, route, req, sent, resp,
                   records, vectors, extractions, version, log>>

\* a failure that ends the pass instead of the item
AbortBatch(p, id, state) == [p EXCEPT !.todo = <<>>]

\* the item is marked failed and the pass goes on
MarkFailed(p, id, state) == [p EXCEPT !.outcome[id] = state]

\* the embedding call returns or fails; a failure is retried up to
\* MaxAttempts calls, then the record is marked EMBEDDING_FAILED
EmbedReturn(w) ==
    /\ route = "pipeline"
    /\ pass.running /\ pass.kind = "embed"
    /\ work[w] # Idle
    /\ LET id == work[w].id IN
       \E ok \in BOOLEAN :
        IF ok
        THEN /\ vectors' = Supersede(vectors,
                              [id |-> id, version |-> version.model,
                               hash |-> work[w].hash,
                               value |-> Embedding(work[w].text, version.model)])
             /\ pass' = [pass EXCEPT !.outcome[id] = "done"]
             /\ work' = [work EXCEPT ![w] = Idle]
        ELSE IF work[w].tries < MaxAttempts
        THEN /\ vectors' = vectors
             /\ pass' = [pass EXCEPT !.calls[id] = @ + 1]
             /\ work' = [work EXCEPT ![w].tries = @ + 1]
        ELSE /\ vectors' = vectors
             /\ pass' = MarkFailed(pass, id, "EMBEDDING_FAILED")
             /\ work' = [work EXCEPT ![w] = Idle]
    /\ UNCHANGED <<frontVars, store, route, req, sent, resp,
                   records, extractions, version, log>>

(* extraction *)

Extraction(id, state, eligHash, output) ==
    [id |-> id, schema |-> version.schema, state |-> state,
     eligHash |-> eligHash, output |-> output]

\* the capability's output: the keys it holds, the sex value, and the
\* criteria items (here the text they were taken from)
Output(keys, sex, text) == [keys |-> keys, sex |-> sex, items |-> <<text>>]

NoOutput == [keys |-> {}, sex |-> "", items |-> <<>>]

RequiredKeys == {"sex", "min_age", "max_age", "inclusion", "exclusion", "flags"}

SexEnum == {"ALL", "FEMALE", "MALE"}

\* what the capability may answer for a text: a complete output, one that
\* lacks a key, one whose sex is outside the enum; or nothing (service error)
CapabilityOutputs(text) ==
    {Output(RequiredKeys, "ALL", text), Output(RequiredKeys \ {"max_age"}, "ALL", text),
     Output(RequiredKeys, "anyone", text), NoOutput}

\* a validation that looks at the keys only
ValidateKeys(o) == RequiredKeys \subseteq o.keys

\* structural validation: required keys present, enums within the closed set
Validate(o) == RequiredKeys \subseteq o.keys /\ o.sex \in SexEnum

\* an extraction kept beside the record's earlier ones
Append2(E, e) == E \cup {e}

\* the record's extraction of a schema version is replaced
Put(E, e) == {x \in E : ~(x.id = e.id /\ x.schema = e.schema)} \cup {e}

\* the record has an extraction of the current schema made from its text
ExtractionFresh(rec) ==
    \E e \in extractions :
        /\ e.id = rec.id /\ e.schema = version.schema
        /\ e.state = "EXTRACTED" /\ e.eligHash = rec.eligHash

\* extract(record), up to the external call
ExtractTake(w) ==
    /\ route = "pipeline"
    /\ pass.running /\ pass.kind = "extract"
    /\ work[w] = Idle
    /\ pass.todo # <<>>
    /\ LET id == Head(pass.todo)
           rec == RecordOf(id)
       IN  IF rec.elig = NoText
           THEN /\ extractions' = Put(extractions,
                                      Extraction(id, "SKIPPED", rec.eligHash, NoOutput))
                /\ pass' = [pass EXCEPT !.todo = Tail(@), !.outcome[id] = "done"]
                /\ UNCHANGED <<work, log>>
           ELSE IF ExtractionFresh(rec)
           THEN /\ pass' = [pass EXCEPT !.todo = Tail(@), !.outcome[id] = "done"]
                /\ UNCHANGED <<extractions, work, log>>
           ELSE /\ extractions' = Put(extractions,
                                      Extraction(id, "PENDING", rec.eligHash, NoOutput))
                /\ pass' = [pass EXCEPT !.todo = Tail(@), !.calls[id] = 1]
                /\ work' = [work EXCEPT ![w] =
                              [id |-> id, text |-> rec.elig,
                               hash |-> rec.eligHash, tries |-> 1]]
                /\ log' = [log EXCEPT !.runs[id] = @ + 1]
    /\ UNCHANGED <<frontVars, store, route, req, sent, resp, records, vectors, version>>

\* the extraction call returns.  An output that passes validation is kept
\* as EXTRACTED; otherwise a corrective follow-up is sent, at most MaxRetries
\* times, and then the extraction is recorded as NEEDS_REVIEW.
ExtractReturn(w) ==
    /\ route = "pipeline"
    /\ pass.running /\ pass.kind = "extract"
    /\ work[w] # Idle
    /\ LET id == work[w].id IN
       \E out \in CapabilityOutputs(work[w].text) :
        IF Validate(out)
        THEN /\ extractions' = Put(extractions,
                                   Extraction(id, "EXTRACTED", work[w].hash, out))
             /\ pass' = [pass EXCEPT !.outcome[id] = "done"]
             /\ work' = [work EXCEPT ![w] = Idle]
        ELSE IF work[w].tries < 1 + MaxRetries
        THEN /\ extractions' = extractions
             /\ pass' = [pass EXCEPT !.calls[id] = @ + 1]
             /\ work' = [work EXCEPT ![w].tries = @ + 1]
        ELSE /\ extractions' = Put(extractions,
                                   Extraction(id, "NEEDS_REVIEW", work[w].hash, NoOutput))
             /\ pass' = MarkFailed(pass, id, "NEEDS_REVIEW")
             /\ work' = [work EXCEPT ![w] = Idle]
    /\ UNCHANGED <<frontVars, store, route, req, sent, resp, records, vectors, version, log>>

\* the pass ends when the batch is taken and every worker has committed
EndPass ==
    /\ route = "pipeline"
    /\ pass.running
    /\ pass.todo = <<>>
    /\ \A w \in Workers : work[w] = Idle
    /\ pass' = [pass EXCEPT !.running = FALSE]
    /\ UNCHANGED <<frontVars, store, route, req, sent, resp,
                   records, vectors, extractions, version, work, log>>

----------------------------------------------------------------------------
(* Handlers *)

\* The handlers keep nothing from one request to the next: after the first
\* request a client repeats it or changes one parameter of again.
NextRequests(keys, again, values) ==
    IF req = NoRequest THEN Requests(keys, values) ELSE Variants(req, again, values)

\* GET /api/studies, neon version: the count query, then the page query
StudiesNeonGET ==
    /\ route = "studies-neon"
    /\ \E r \in NextRequests(StudiesKeys, {"status", "page"}, StudiesValues) :
        LET in == StudiesInput(r)
            conds == NeonConditions(in)
            countQ == NeonCountQuery(conds)
            fetchQ == NeonFetchQuery(conds, in.limit, in.offset)
            found == Matching(store, conds)
        IN  /\ req' = r
            /\ IF AnyError(conds)
               THEN /\ sent' = <<countQ>>
                    /\ resp' = NeonFailure(in.page, in.limit)
               ELSE IF LimitError(in.limit, in.offset)
               THEN /\ sent' = <<countQ, fetchQ>>
                    /\ resp' = NeonFailure(in.page, in.limit)
               ELSE /\ sent' = <<countQ, fetchQ>>
                    /\ \E s \in Orderings(found) :
                         resp' = OkResponse(Studies(Page(s, in.limit, in.offset)),
                                            Cardinality(found), in.page, in.limit)
    /\ UNCHANGED <<store, route>>
    /\ UNCHANGED pipeVars
    /\ UNCHANGED frontVars

\* GET /api/studies, pg version
StudiesPgGET ==
    /\ route = "studies-pg"
    /\ \E r \in NextRequests(StudiesKeys, {"page"}, StudiesValues) :
        LET in == StudiesInput(r)
            b == PgConditions(in)
            countQ == PgCountQuery(b)
            fetchQ == PgFetchQuery(b, in.limit, in.offset)
            found == Matching(store, Bind(b.conditions, b.params))
        IN  /\ req' = r
            /\ store' = Executed(store, Bind(b.conditions, b.params))
            /\ IF AnyError(b.conditions)
               THEN /\ sent' = <<countQ>>
                    /\ resp' = PgFailure
               ELSE IF LimitError(in.limit, in.offset)
               THEN /\ sent' = <<countQ, fetchQ>>
                    /\ resp' = PgFailure
               ELSE /\ sent' = <<countQ, fetchQ>>
                    /\ \E s \in Orderings(found) :
                         resp' = OkResponse(PgStudies(Page(s, in.limit, in.offset)),
                                            Cardinality(found), in.page, in.limit)
    /\ UNCHANGED route
    /\ UNCHANGED pipeVars
    /\ UNCHANGED frontVars

\* GET /api/stats: the seven queries one after the other.  The order of
\* groups of equal count is the store's; it is taken from one scan order per
\* request.
StatsGET ==
    /\ route = "stats"
    /\ \E r \in NextRequests(StatsKeys, {"year"}, StatsValues) :
        LET conds == StatsConditions(r) IN
        /\ req' = r
        /\ store' = Executed(store, conds)
        /\ IF AnyError(conds)
           THEN /\ sent' = <<StatsQueries(conds)[1]>>
                /\ resp' = StatsFailure
           ELSE /\ sent' = StatsQueries(conds)
                /\ \E scan \in Scans(store) :
                     resp' = StatsResponse(r, store, conds, scan)
    /\ UNCHANGED route
    /\ UNCHANGED pipeVars
    /\ UNCHANGED frontVars

InitRoute(rt, pool) ==
    /\ store \in Stores(pool)
    /\ route = rt
    /\ req = NoRequest
    /\ sent = <<>>
    /\ resp = NoResponse
    /\ InitPipelineVars
    /\ InitFrontVars

InitStudiesNeon == InitRoute("studies-neon", SearchPool)
InitStudiesPg == InitRoute("studies-pg", SearchPool)
InitStats == InitRoute("stats", StatsPool)

NextStudiesNeon == StudiesNeonGET
NextStudiesPg == StudiesPgGET
NextStats == StatsGET

SpecStudiesNeon == InitStudiesNeon /\ [][NextStudiesNeon]_vars
SpecStudiesPg == InitStudiesPg /\ [][NextStudiesPg]_vars
SpecStats == InitStats /\ [][NextStats]_vars

----------------------------------------------------------------------------
(* Properties of the studies route *)

\* the column a structured filter of the studies route constrains
FilterKeys == {"status", "phase", "study_type", "sponsor_class"}

FilterColumn(k) ==
    CASE k = "status" -> "overall_status"
      [] k = "phase" -> "phase"
      [] k = "study_type" -> "study_type"
      [] k = "sponsor_class" -> "lead_sponsor_class"

\* the row holds, in each filtered column, the value the request names
SatisfiesFilters(row, r) ==
    \A k \in FilterKeys : r.params[k] # <<>> => row[FilterColumn(k)] = r.params[k]

\* the route's text search, on one row
TextHit(row, q) == RowSatisfies(row, Cond(<<>>, "ilike5", "", searchTerm(q), FALSE))

\* q occurs, letter case aside, as a run of characters in t
OccursIn(q, t) == t # NULL /\ IsSubstring(FoldLower(q), FoldLower(t))

\* q occurs in a title, the sponsor name, a condition name or the identifier
LiteralHit(row, q) ==
    \/ OccursIn(q, row.brief_title)
    \/ OccursIn(q, row.official_title)
    \/ OccursIn(q, row.lead_sponsor)
    \/ row.conditions # NULLJ
       /\ \E i \in 1..Len(row.conditions) : OccursIn(q, row.conditions[i])
    \/ OccursIn(q, row.nct_id)

\* the number an identifier ends with
NctNumber(id) == CHOOSE n \in 1..9 : ToString(n) = id[Len(id)]

Succeeded == req.kind = "GET" /\ resp.status = 200

\* the two requests differ at most in their page
SamePageless(r1, r2) ==
    /\ r1.kind = "GET" /\ r2.kind = "GET"
    /\ \A k \in ParamKeys \ {"page"} : r1.params[k] = r2.params[k]

\* C5: two identical search calls against an unmodified store return the
\* same items in the same order, also when rows tie on last_update_date or
\* have none.
C5_IdenticalCallsAgree ==
    [][(req' = req /\ resp.status = 200 /\ resp'.status = 200 /\ store' = store)
         => resp'.studies = resp.studies]_vars

\* C6: a search request with page <= 0 or limit <= 0 is rejected with an
\* error and sends no query to the store.
C6_NonPositiveRejected ==
    (req.kind = "GET"
     /\ \/ ParseInt(OrDefault(req.params["page"], Numeral(DefaultPage))) <= 0
        \/ ParseInt(OrDefault(req.params["limit"], Numeral(DefaultLimit))) <= 0)
    => (resp.status # 200 /\ "error" \in resp.keys /\ sent = <<>>)

\* C7: for page >= 1 and limit >= 1 the pages of one search are slices of
\* one ordered candidate sequence: a response holds the elements
\* (page-1)*L+1 .. page*L of it, L = min(limit, 100), so two pages are
\* disjoint, and total is the length of that sequence on every page.
C7_PagesSliceOneSequence ==
    [][(/\ SamePageless(req, req')
        /\ resp.status = 200 /\ resp'.status = 200 /\ store' = store
        /\ StudiesInput(req).page >= 1 /\ StudiesInput(req').page >= 1
        /\ StudiesInput(req).page # StudiesInput(req').page
        /\ StudiesInput(req).limit >= 1)
       => \E s \in Orderings({row \in store :
                                /\ SatisfiesFilters(row, req)
                                /\ req.params["q"] # <<>> => TextHit(row, req.params["q"])}) :
            /\ resp.studies = PgStudies(Page(s, StudiesInput(req).limit,
                                             StudiesInput(req).offset))
            /\ resp'.studies = PgStudies(Page(s, StudiesInput(req').limit,
                                              StudiesInput(req').offset))
            /\ Len(resp.studies) <= LimitCap /\ Len(resp'.studies) <= LimitCap
            /\ resp.total = Len(s) /\ resp'.total = Len(s)]_vars

\* C8: with free text, the items come in the order the merge fixes: dual
\* matches first, then vector score descending, then last update descending,
\* then identifier ascending.  The route computes no vector set and no
\* score, so every item is a keyword-only match with no score, and the order
\* the claim leaves is last update descending, then identifier ascending.
C8_FreeTextOrder ==
    (Succeeded /\ req.params["q"] # <<>>)
    => \A i, j \in 1..Len(resp.studies) :
         i < j =>
           LET a == CHOOSE row \in store : row.nct_id = resp.studies[i].nct_id
               b == CHOOSE row \in store : row.nct_id = resp.studies[j].nct_id
           IN  /\ ~UpdatedBefore(b, a)
               /\ a.last_update_date = b.last_update_date
                    => NctNumber(a.nct_id) < NctNumber(b.nct_id)

\* C9: every item of a successful search satisfies every active structured
\* filter, with or without free text; total counts exactly the rows that
\* satisfy the filters (and match the text, when there is one); with no
\* text and no filter total is the number of stored rows.
C9_FiltersHold ==
    Succeeded =>
      /\ \A i \in 1..Len(resp.studies) :
            /\ SatisfiesFilters(resp.studies[i], req)
            /\ \E row \in store : PgStudies(<<row>>) = <<resp.studies[i]>>
      /\ resp.total =
            Cardinality({row \in store :
                            /\ SatisfiesFilters(row, req)
                            /\ req.params["q"] # <<>> => TextHit(row, req.params["q"])})
      /\ (PresentKeys(req) \cap (FilterKeys \cup {"q"}) = {}
            => resp.total = Cardinality(store))

\* C9 witness: a filtered search with free text returned an item while the
\* store holds a row the filters exclude
C9_Witness ==
    /\ Succeeded
    /\ req.params["q"] # <<>> /\ req.params["status"] # <<>>
    /\ req.params["sponsor_class"] # <<>>
    /\ Len(resp.studies) >= 1
    /\ \E row \in store : ~SatisfiesFilters(row, req)

----------------------------------------------------------------------------
(* Properties of the query text and of the stats route *)

QueryTexts(qs) == [i \in 1..Len(qs) |-> qs[i].text]

\* C1: the text of the queries a request sends depends only on which keys
\* are present: two requests with the same present keys and other values
\* send the same query texts.
C1_TextIndependentOfValues ==
    [][(req.kind = "GET" /\ req'.kind = "GET"
        /\ PresentKeys(req') = PresentKeys(req))
       => QueryTexts(sent') = QueryTexts(sent)]_vars

HasSpecial(v) == \E i \in 1..Len(v) : v[i] \in {Q1, DQ, BS}

\* the row passes the stats filters other than the condition filter
PassesOthers(row, r) ==
    \A i \in 1..Len(StatsConditions([r EXCEPT !.params["condition"] = <<>>])) :
        RowSatisfies(row, StatsConditions([r EXCEPT !.params["condition"] = <<>>])[i])

\* C2: a condition filter whose value holds a quote, a double quote or a
\* backslash selects exactly the rows whose conditions hold that very
\* value: the request succeeds and the other filters apply unchanged.
C2_SpecialValueLiteral ==
    (req.kind = "GET" /\ HasSpecial(req.params["condition"]))
    => /\ resp.status = 200
       /\ resp.total =
            Cardinality({row \in store :
                            /\ PassesOthers(row, req)
                            /\ JsonbContains(row.conditions, req.params["condition"])})

Entries(list) == {list[i] : i \in 1..Len(list)}

\* the facet lists over the rows that pass every filter but dimension d's
SelfExclusive(d) ==
    StatsResponse(req, store,
                  StatsConditions([req EXCEPT !.params[d] = <<>>]),
                  CHOOSE scan \in Scans(store) : TRUE)

\* C3: each dimension's facet list is computed over the rows that satisfy
\* every active filter except that dimension's own.
C3_FacetsSelfExclusive ==
    (req.kind = "GET" /\ resp.status = 200)
    => /\ Entries(resp.byStatus) = Entries(SelfExclusive("status").byStatus)
       /\ Entries(resp.byPhase) = Entries(SelfExclusive("phase").byPhase)
       /\ Entries(resp.topConditions)
            = Entries(SelfExclusive("condition").topConditions)
       /\ Entries(resp.bySponsor) = Entries(SelfExclusive("sponsor").bySponsor)
       /\ Entries(resp.byYear) = Entries(SelfExclusive("year").byYear)

RECURSIVE SumOf(_, _)
\* the sum of field f over a list of entries
SumOf(list, f) == IF list = <<>> THEN 0 ELSE Head(list)[f] + SumOf(Tail(list), f)

\* C4: for every dimension the counts of its facet list add up to the
\* number of rows that satisfy the predicate the list was computed with
\* (in this route: the WHERE clause of the request, which total counts).
C4_FacetCountsAddUp ==
    (req.kind = "GET" /\ resp.status = 200)
    => /\ SumOf(resp.byStatus, "value") = resp.total
       /\ SumOf(resp.byPhase, "value") = resp.total
       /\ SumOf(resp.bySponsor, "value") = resp.total
       /\ SumOf(resp.byYear, "count") = resp.total
       /\ SumOf(resp.topConditions, "value") = resp.total


----------------------------------------------------------------------------
(* The studies proxy route: every search parameter is forwarded to the      *)
(* backend's /api/studies, and the backend's answer is passed on.           *)

\* the parameters the proxy's callers are drawn from (it forwards any key)
ProxyKeys == {"status", "page"}

\* The backend is a separate service.  Its answer to a search is taken from
\* its contract: items and a total on success, a non-2xx status on a
\* rejected or failed search; the call may also fail to connect, or the body
\* may not be JSON.
BackendAnswers(S, r) ==
    LET in == StudiesInput(r) IN
    UNION {{[kind |-> "ok",
              data |-> OkResponse(Studies(s), Cardinality(T), in.page, in.limit)] :
                s \in Orderings(T)} : T \in SUBSET S}
    \cup {[kind |-> k, data |-> NoResponse] : k \in {"not-ok", "no-answer", "not-json"}}

\* backendUrl with the forwarded parameters, and what came back
BackendExchange(r, answer) == [url |-> r.params, answer |-> answer.kind]

ProxyFailure ==
    [status |-> 500, keys |-> {"error", "studies", "total"},
     error |-> <<"Failed to fetch studies">>, studies |-> <<>>, total |-> 0,
     page |-> 0, limit |-> 0]

\* GET /api/studies, proxy version
StudiesProxyGET ==
    /\ route = "studies-proxy"
    /\ \E r \in NextRequests(ProxyKeys, {"page"}, StudiesValues) :
       \E answer \in BackendAnswers(store, r) :
        /\ req' = r
        /\ sent' = <<BackendExchange(r, answer)>>
        /\ resp' = IF answer.kind = "ok" THEN answer.data ELSE ProxyFailure
    /\ UNCHANGED <<store, route>>
    /\ UNCHANGED pipeVars
    /\ UNCHANGED frontVars

(* The query path: the search route, its proxy and the stats route *)

\* the rows the search route and its proxy are run over here: two that tie
\* on the update date and one without a date
PathPool == {row \in SearchPool : row.nct_id \in {<<"N", "1">>, <<"N", "2">>, <<"N", "4">>}}

\* and the rows the stats route is run over here
PathStatsPool == {row \in StatsPool : row.nct_id \in {<<"N", "1">>, <<"N", "3">>, <<"N", "4">>}}

InitQueryPath ==
    \/ InitRoute("studies-pg", PathPool)
    \/ InitRoute("stats", PathStatsPool)
    \/ InitRoute("studies-proxy", PathPool)

NextQueryPath == StudiesPgGET \/ StatsGET \/ StudiesProxyGET

SpecQueryPath == InitQueryPath /\ [][NextQueryPath]_vars

\* the store, or the backend, did not answer the request's queries
Failed ==
    /\ req.kind = "GET"
    /\ CASE route = "studies-pg" ->
              LET in == StudiesInput(req) IN
              AnyError(PgConditions(in).conditions) \/ LimitError(in.limit, in.offset)
         [] route = "stats" -> AnyError(StatsConditions(req))
         [] route = "studies-proxy" -> sent[1].answer # "ok"
         [] OTHER -> FALSE

ErrorMarked == "error" \in resp.keys

\* C11: on the search path (the pg route, the proxy) and the stats path, a
\* request whose query failed is answered with a non-success status and an
\* "error" member, and a 200 answer, with items or without, has no "error"
\* member: the two cannot be confused.
C11_FailuresAreMarked ==
    req.kind = "GET" =>
        /\ Failed => resp.status >= 400 /\ ErrorMarked /\ resp.error # <<>>
        /\ ~Failed => resp.status = 200 /\ ~ErrorMarked

\* a failed search whose payload has the shape of an empty result
C11_Witness ==
    /\ route = "studies-pg"
    /\ Failed
    /\ resp.studies = <<>>
    /\ resp.total = 0



----------------------------------------------------------------------------
(* Properties of the filters and labels of the stats route *)

\* the request names a status, phase or sponsor value the route has no
\* condition for
Unrecognised(r) ==
    \/ r.params["status"] # <<>> /\ Lookup(statusMap, r.params["status"]) = <<>>
    \/ r.params["phase"] # <<>> /\ PhaseCondition(r.params["phase"]) = <<>>
    \/ r.params["sponsor"] # <<>> /\ Lookup(sponsorMap, r.params["sponsor"]) = <<>>

\* C12: a stats request whose status, phase or sponsor value is outside the
\* recognised set is rejected before any query is sent to the store.
C12_UnrecognisedRejected ==
    req.kind = "GET" /\ Unrecognised(req) => resp.status >= 400 /\ sent = <<>>


\* the display labels of each dimension: those the route's maps know, and
\* the label its CASE gives to the rest
StatusLabels == {<<l>> : l \in DOMAIN statusMap}
PhaseLabels ==
    {<<l>> : l \in DOMAIN phaseMap}
    \cup {<<"Phase 1/2">>, <<"Phase 2/3">>, <<"Not Applicable">>, <<"Other">>}
SponsorLabels == {<<l>> : l \in DOMAIN sponsorMap} \cup {<<"Other">>}

StatusCodes == {<<statusMap[l]>> : l \in DOMAIN statusMap}

\* the count a facet list gives a label
CountedUnder(list, label) ==
    SumOf(SelectSeq(list, LAMBDA e : e.name = label), "value")

\* C13: the status, phase and sponsor lists of a stats answer carry labels
\* of the dimension's closed set only, and the rows whose status is a code
\* the route does not recognise are counted under "Unknown".
C13_FacetLabelsClosed ==
    (route = "stats" /\ Succeeded) =>
        LET T == Matching(store, StatsConditions(req)) IN
        /\ \A e \in Entries(resp.byStatus) : e.name \in StatusLabels
        /\ \A e \in Entries(resp.byPhase) : e.name \in PhaseLabels
        /\ \A e \in Entries(resp.bySponsor) : e.name \in SponsorLabels
        /\ CountedUnder(resp.byStatus, <<"Unknown">>)
             >= Cardinality({row \in T : /\ row.overall_status # NULL
                                         /\ row.overall_status \notin StatusCodes})


----------------------------------------------------------------------------
(* The labels of the search page and of the study card *)

\* the filter options of the search page: stored code -> label
STATUSES ==
    ("RECRUITING" :> "Recruiting")
    @@ ("ACTIVE_NOT_RECRUITING" :> "Active, not recruiting")
    @@ ("COMPLETED" :> "Completed")
    @@ ("NOT_YET_RECRUITING" :> "Not yet recruiting")
    @@ ("TERMINATED" :> "Terminated") @@ ("SUSPENDED" :> "Suspended")

PHASES ==
    ("EARLY_PHASE1" :> "Early Phase 1") @@ ("PHASE1" :> "Phase 1")
    @@ ("PHASE2" :> "Phase 2") @@ ("PHASE3" :> "Phase 3") @@ ("PHASE4" :> "Phase 4")

SPONSOR_CLASSES ==
    ("INDUSTRY" :> "Industry") @@ ("NIH" :> "NIH") @@ ("FED" :> "Federal")
    @@ ("OTHER" :> "Other")

\* the study card's phase labels
phaseLabels ==
    ("EARLY_PHASE1" :> "Early Phase 1") @@ ("PHASE1" :> "Phase 1")
    @@ ("PHASE2" :> "Phase 2") @@ ("PHASE3" :> "Phase 3") @@ ("PHASE4" :> "Phase 4")
    @@ ("NA" :> "N/A")

\* phaseLabels[study.phase] || study.phase
CardPhase(ph) == IF Lookup(phaseLabels, ph) # <<>> THEN Lookup(phaseLabels, ph) ELSE ph

\* study.overall_status?.replace(/_/g, " ") on the status codes: a code is
\* one symbol here, so the replacement is given code by code
CardStatus(code) ==
    CASE code = <<"ACTIVE_NOT_RECRUITING">> -> <<"ACTIVE NOT RECRUITING">>
      [] code = <<"NOT_YET_RECRUITING">> -> <<"NOT YET RECRUITING">>
      [] code = <<"ENROLLING_BY_INVITATION">> -> <<"ENROLLING BY INVITATION">>
      [] OTHER -> code

\* two places agree on a label, or one of them has none for the code
Agree(a, b) == a = <<>> \/ b = <<>> \/ a = b

\* C14: for every stored status, phase and sponsor-class code, the stats
\* route's CASE, the search page's filter options and the study card give
\* the same label.
C14_OneLabelPerCode ==
    (route = "stats" /\ Succeeded) =>
        \A row \in store :
            /\ row.overall_status # NULL =>
                 /\ Agree(StatusName(row.overall_status),
                          Lookup(STATUSES, row.overall_status))
                 /\ Agree(StatusName(row.overall_status),
                          CardStatus(row.overall_status))
            /\ row.phase # NULL =>
                 /\ Agree(PhaseName(row.phase), Lookup(PHASES, row.phase))
                 /\ Agree(PhaseName(row.phase), CardPhase(row.phase))
            /\ row.lead_sponsor_class # NULL =>
                 Agree(SponsorName(row.lead_sponsor_class),
                       Lookup(SPONSOR_CLASSES, row.lead_sponsor_class))


----------------------------------------------------------------------------
(* The batch passes as a system of their own *)

InitPipeline == InitRoute("pipeline", {})

NextPipeline ==
    \/ Ingest
    \/ Upgrade
    \/ StartPass
    \/ \E w \in Workers : EmbedTake(w)
    \/ \E w \in Workers : EmbedReturn(w)
    \/ \E w \in Workers : ExtractTake(w)
    \/ \E w \in Workers : ExtractReturn(w)
    \/ EndPass

SpecPipeline == InitPipeline /\ [][NextPipeline]_vars


----------------------------------------------------------------------------
(* Properties of the batch passes *)

\* the record the canonicalizer makes of the raw record last ingested under
\* identifier id
LastIngested(id) == normalize(log.lastRaw[id])

\* C15: the record store holds at most one record per registry identifier,
\* and that record is the one made of the raw record most recently ingested
\* under the identifier.
C15_OneRecordPerIdentifier ==
    /\ \A a, b \in records : a.id = b.id => a = b
    /\ \A r \in records : r = LastIngested(r.id)
    /\ \A id \in Ids : log.lastRaw[id].id = id => LastIngested(id) \in records

\* record 1 was ingested with title <<1>> (a vector was made of that text),
\* then with title <<2>>: the store holds one record, with the second title
C15_Witness ==
    /\ \E v \in vectors : v.id = 1 /\ v.value.of = CanonicalText(<<1>>, <<3>>)
    /\ Cardinality(records) = 1
    /\ \E r \in records : r.id = 1 /\ r.title = <<2>>


\* a worker takes the next record of the running pass
Takes(kind) ==
    /\ pass.running /\ pass.kind = kind
    /\ pass.todo # <<>>
    /\ pass'.todo = Tail(pass.todo)

\* the record's vector was computed from its present canonical text by the
\* present model
EmbeddedAsIs(rec) ==
    \E v \in vectors :
        v.id = rec.id /\ v.value = Embedding(CanonicalText(rec.title, rec.elig),
                                             version.model)

\* the record's extraction was made from its present eligibility text under
\* the present schema
ExtractedAsIs(rec) ==
    \E e \in extractions :
        /\ e.id = rec.id /\ e.schema = version.schema
        /\ e.state = "EXTRACTED" /\ e.output.items = <<rec.elig>>

\* C16: when a pass comes to a record whose text and version are those of
\* its last successful embedding (extraction), no external call is made and
\* the stored vectors (extractions) stay as they are.
C16_RerunIsNoOp ==
    [][LET id == Head(pass.todo)
           rec == RecordOf(id)
       IN  /\ (Takes("embed") /\ EmbeddedAsIs(rec))
                => work' = work /\ pass'.calls[id] = 0 /\ vectors' = vectors
           /\ (Takes("extract") /\ ExtractedAsIs(rec))
                => work' = work /\ pass'.calls[id] = 0 /\ extractions' = extractions
      ]_vars

\* an embedding pass has gone over record 1, whose vector was current, and
\* made no call for it
C16_Witness ==
    /\ pass.kind = "embed"
    /\ pass.outcome[1] = "done"
    /\ pass.calls[1] = 0
    /\ \E r \in records : r.id = 1 /\ EmbeddedAsIs(r)


\* the extraction capability is called for the record taken in this step
Invoked(id) == pass'.calls[id] = 1

\* no successful extraction of the record is recorded at its present hash
HashDiffers(rec) ==
    ~\E e \in extractions :
        e.id = rec.id /\ e.state = "EXTRACTED" /\ e.eligHash = rec.eligHash

WellFormed(o) ==
    /\ \A k \in RequiredKeys : k \in o.keys
    /\ o.sex = "ALL" \/ o.sex = "FEMALE" \/ o.sex = "MALE"

StateOf(E, id, schema) ==
    {e.state : e \in {x \in E : x.id = id /\ x.schema = schema}}

\* C18: an extraction is sent at most MaxRetries corrective follow-ups; it
\* becomes NEEDS_REVIEW only when the first call and every follow-up failed,
\* and is then recorded; an EXTRACTED extraction holds an output that passes
\* validation; a record without eligibility text gets a SKIPPED extraction.
C18_BoundedRetries ==
    [][/\ \A id \in Ids :
            /\ pass'.kind = "extract" => pass'.calls[id] <= 1 + 2
            /\ ("NEEDS_REVIEW" \in StateOf(extractions', id, version.schema)
                /\ "NEEDS_REVIEW" \notin StateOf(extractions, id, version.schema))
               => pass.calls[id] = 1 + 2 /\ pass'.outcome[id] = "NEEDS_REVIEW"
            /\ (pass'.kind = "extract" /\ pass'.outcome[id] = "NEEDS_REVIEW"
                /\ pass.outcome[id] # "NEEDS_REVIEW")
               => "NEEDS_REVIEW" \in StateOf(extractions', id, version.schema)
       /\ \A e \in extractions' : e.state = "EXTRACTED" => WellFormed(e.output)
       /\ Takes("extract") =>
            LET id == Head(pass.todo) IN
            RecordOf(id).elig = NoText
            => StateOf(extractions', id, version.schema) = {"SKIPPED"}
      ]_vars

\* record 1's extraction failed validation three times and awaits review
C18_Witness ==
    /\ pass.kind = "extract"
    /\ pass.calls[1] = 3
    /\ pass.outcome[1] = "NEEDS_REVIEW"
    /\ \E e \in extractions : e.id = 1 /\ e.state = "NEEDS_REVIEW"


\* C19: a record has at most one extraction in state EXTRACTED per schema
\* version.
C19_OneExtractedPerSchema ==
    \A id \in Ids : \A schema \in 1..MaxVersion :
        Cardinality({e \in extractions :
                        e.id = id /\ e.schema = schema /\ e.state = "EXTRACTED"}) <= 1

\* record 1 was extracted a second time from the same text (the first run
\* ended in review) and is now EXTRACTED, while another worker of the pass is
\* at work on record 2
C19_Witness ==
    /\ pass.kind = "extract" /\ pass.running
    /\ log.runs[1] = 2
    /\ \E e \in extractions : e.id = 1 /\ e.state = "EXTRACTED"
    /\ \E w \in Workers : work[w].id = 2


\* the calls an item of the pass may be given
Cap == IF pass.kind = "embed" THEN MaxAttempts ELSE 1 + MaxRetries

RECURSIVE CallsLeft(_)
\* the calls the workers in W may still make for the items they hold, each
\* counted with its commit
CallsLeft(W) ==
    IF W = {} THEN 0
    ELSE LET w == CHOOSE x \in W : TRUE IN
         (IF work[w] = Idle THEN 0 ELSE Cap - work[w].tries + 1) + CallsLeft(W \ {w})

\* what is left of the running pass: its end, the items not yet taken with
\* all their calls, and the calls left to the items in the workers' hands
Measure ==
    (IF pass.running THEN 1 ELSE 0) + Len(pass.todo) * (Cap + 1) + CallsLeft(Workers)

Terminal == {"done", "EMBEDDING_FAILED", "NEEDS_REVIEW"}

\* C20: every step of a running pass brings it nearer its end (the measure
\* of what is left decreases and is never negative), so a pass ends after a
\* bounded number of steps whatever the external calls answer; and when it
\* ends every item of the batch is in a terminal state.
C20_PassTerminates ==
    [][/\ (pass.running /\ (pass' # pass \/ work' # work))
            => Measure' < Measure /\ Measure' >= 0
       /\ (pass.running /\ ~pass'.running)
            => \A id \in Ids : pass.outcome[id] # "none"
                               => pass'.outcome[id] \in Terminal
      ]_vars

\* an embedding pass has ended: record 1 failed on every attempt and is
\* marked, record 2 behind it in the batch was embedded
C20_Witness ==
    /\ pass.kind = "embed" /\ ~pass.running
    /\ pass.outcome[1] = "EMBEDDING_FAILED" /\ pass.calls[1] = MaxAttempts
    /\ pass.outcome[2] = "done" /\ pass.calls[2] > 0

----------------------------------------------------------------------------
(* The routes only read *)

\* C21: the search operation and the stats operation leave the record
\* store unchanged: after every request, answered with a result or with a
\* failure, the table holds what it held before the request.
C21_StoreUnchanged == [][store' = store]_vars

\* a stats request whose value was written to smuggle DeleteAll has been
\* refused, over a table that still holds rows
C21_Witness ==
    /\ route = "stats" /\ req.kind = "GET"
    /\ req.params["condition"] = CondInject
    /\ resp.status = 500
    /\ store # {}

----------------------------------------------------------------------------
(* Facet entries of the stats route, selected and listed *)

\* the request r with dimension k filtered to the label v
Narrowed(r, k, v) == [r EXCEPT !.params[k] = v]

\* total of the stats response to r over the table S; -1 for a failure
TotalFor(S, r) ==
    LET conds == StatsConditions(r) IN
    IF AnyError(conds) THEN 0 - 1 ELSE Cardinality(Matching(S, conds))

\* every entry of list, filtered on in dimension k, gives its own count
NarrowsTo(list, k) ==
    \A i \in 1..Len(list) :
        TotalFor(store, Narrowed(req, k, list[i].name)) = list[i].value

\* C27: for every filter state F and every entry (label L, count n) of a
\* facet list returned under F, the stats request with F plus that
\* dimension filtered to L returns total = n.
C27_FacetEntryNarrows ==
    (route = "stats" /\ Succeeded) =>
        /\ NarrowsTo(resp.byStatus, "status")
        /\ NarrowsTo(resp.byPhase, "phase")
        /\ NarrowsTo(resp.topConditions, "condition")
        /\ NarrowsTo(resp.bySponsor, "sponsor")
        /\ \A i \in 1..Len(resp.byYear) :
              TotalFor(store, Narrowed(req, "year", Numeral(resp.byYear[i].year)))
              = resp.byYear[i].count

\* the labels of a facet list, in its order
LabelsOf(list, field) == [i \in 1..Len(list) |-> list[i][field]]

NoRepeat(s) == \A i, j \in 1..Len(s) : s[i] = s[j] => i = j

\* C28: in every stats response each facet list holds at most one entry per
\* label, whatever the table holds (null or unrecognised sponsor classes and
\* statuses included).
C28_OneEntryPerLabel ==
    (route = "stats" /\ Succeeded) =>
        /\ NoRepeat(LabelsOf(resp.byStatus, "name"))
        /\ NoRepeat(LabelsOf(resp.byPhase, "name"))
        /\ NoRepeat(LabelsOf(resp.topConditions, "name"))
        /\ NoRepeat(LabelsOf(resp.bySponsor, "name"))
        /\ NoRepeat(LabelsOf(resp.byYear, "year"))

----------------------------------------------------------------------------
(* The routes beside a running ingestion: a handler awaits each of its      *)
(* queries, and between two of them the ingestion can write to the table.   *)

\* the requests the handlers are followed through query by query
SteppedRequests(values) == Requests({"status"}, values)

\* the rows the ingestion can add
TablePool == IF route = "stats" THEN PathStatsPool ELSE PathPool

\* the ingestion writes one record that was not in the table
StoreInsert ==
    /\ route \in {"studies-pg", "stats"}
    /\ \E row \in TablePool :
        /\ \A old \in store : old.nct_id # row.nct_id
        /\ store' = store \cup {row}
    /\ UNCHANGED <<route, req, sent, resp>>
    /\ UNCHANGED pipeVars
    /\ UNCHANGED frontVars

\* GET /api/studies, pg version, up to the answer of its count query
PgCountStep ==
    /\ route = "studies-pg" /\ call.at = 0
    /\ \E r \in SteppedRequests(StudiesValues) :
        LET b == PgConditions(StudiesInput(r)) IN
        /\ req' = r
        /\ sent' = <<PgCountQuery(b)>>
        /\ IF AnyError(b.conditions)
           THEN resp' = PgFailure /\ call' = NoCall
           ELSE resp' = NoResponse /\ call' = [at |-> 1, r |-> r, seen |-> <<store>>]
    /\ store' = store
    /\ UNCHANGED <<route, pipeVars, view, timers, flight, hist>>

\* ... and from there to its response
PgFetchStep ==
    /\ route = "studies-pg" /\ call.at = 1
    /\ LET in == StudiesInput(call.r)
           b == PgConditions(in)
           conds == Bind(b.conditions, b.params)
           total == Cardinality(Matching(call.seen[1], conds))
           found == Matching(store, conds)
       IN  /\ sent' = Append(sent, PgFetchQuery(b, in.limit, in.offset))
           /\ IF LimitError(in.limit, in.offset)
              THEN resp' = PgFailure
              ELSE \E s \in Orderings(found) :
                     resp' = OkResponse(PgStudies(Page(s, in.limit, in.offset)),
                                        total, in.page, in.limit)
           /\ call' = [call EXCEPT !.at = 0, !.seen = Append(@, store)]
    /\ store' = store
    /\ UNCHANGED <<route, req, pipeVars, view, timers, flight, hist>>

\* GET /api/stats up to the answer of its first query
StatsFirstStep ==
    /\ route = "stats" /\ call.at = 0
    /\ \E r \in SteppedRequests(StatsValues) :
        LET conds == StatsConditions(r) IN
        /\ req' = r
        /\ sent' = <<StatsQueries(conds)[1]>>
        /\ IF AnyError(conds)
           THEN resp' = StatsFailure /\ call' = NoCall
           ELSE resp' = NoResponse /\ call' = [at |-> 1, r |-> r, seen |-> <<store>>]
    /\ store' = store
    /\ UNCHANGED <<route, pipeVars, view, timers, flight, hist>>

\* ... and each of the six queries that follow; the last one ends the request
StatsNextStep ==
    /\ route = "stats" /\ call.at \in 1..6
    /\ LET conds == StatsConditions(call.r)
           seen == Append(call.seen, store)
       IN  /\ sent' = Append(sent, StatsQueries(conds)[Len(seen)])
           /\ IF Len(seen) < 7
              THEN /\ resp' = resp
                   /\ call' = [call EXCEPT !.at = Len(seen), !.seen = seen]
              ELSE /\ \E scan \in Scans(store) :
                        resp' = StatsResponseOver(call.r, seen, conds, scan)
                   /\ call' = [call EXCEPT !.at = 0, !.seen = seen]
    /\ store' = store
    /\ UNCHANGED <<route, req, pipeVars, view, timers, flight, hist>>

InitConcurrent ==
    \/ InitRoute("studies-pg", PathPool)
    \/ InitRoute("stats", PathStatsPool)

NextConcurrent ==
    \/ StoreInsert
    \/ PgCountStep
    \/ PgFetchStep
    \/ StatsFirstStep
    \/ StatsNextStep

SpecConcurrent == InitConcurrent /\ [][NextConcurrent]_vars

\* the response a request gives when all its queries read the table S
FromOneState(S) ==
    IF route = "stats"
    THEN \E scan \in Scans(store) :
            resp = StatsResponse(req, S, StatsConditions(req), scan)
    ELSE LET in == StudiesInput(req)
             b == PgConditions(in)
             found == Matching(S, Bind(b.conditions, b.params))
         IN  \E s \in Orderings(found) :
                resp = OkResponse(PgStudies(Page(s, in.limit, in.offset)),
                                  Cardinality(found), in.page, in.limit)

\* C24: under concurrent ingestion the values of one search response or one
\* stats response describe a single state of the store: the total and the
\* page items, and the total, recruiting and every facet list, are those of
\* one table the request's queries read.
C24_OneStateResponse ==
    (call.at = 0 /\ call.seen # <<>> /\ Succeeded) =>
        \E i \in 1..Len(call.seen) : FromOneState(call.seen[i])

----------------------------------------------------------------------------
(* The search page (page.tsx): filters, the debounced search, its results   *)
(* and the pager.  Time goes in ticks; the page's timeout of 300 ms is      *)
(* DebounceTicks of them.                                                   *)

PageLimit == 20
DebounceTicks == 3
MaxChanges == 2
CatalogueSize == 25

InitialFilters ==
    [query |-> <<>>, status |-> <<>>, phase |-> <<>>, studyType |-> <<>>,
     sponsorClass |-> <<>>, page |-> 1, limit |-> PageLimit]

\* what the user types or selects here: the other selects work like status
FilterChoices ==
    [k \in {"query", "status"} |->
        IF k = "query" THEN {<<>>, <<"a">>, <<"z">>}
        ELSE {<<>>, <<"RECRUITING">>}]

\* setFilters((prev) => ({ ...prev, [key]: value, page: 1 })): the members
\* are written in this order, so page: 1 is written last
updateFilter(prev, key, value) == [[prev EXCEPT ![key] = value] EXCEPT !.page = 1]

hasActiveFilters ==
    \E k \in {"status", "phase", "studyType", "sponsorClass"} : view.filters[k] # <<>>

\* The table behind /api/studies as the page sees it: records 1..CatalogueSize,
\* the first two not recruiting, record 1 the only one that holds "a".
Hit(i, f) ==
    /\ f.query = <<>> \/ (f.query = <<"a">> /\ i = 1)
    /\ f.status = <<>> \/ (f.status = <<"RECRUITING">> /\ i > 2)

\* the route's success payload for the parameters search() sends: the count
\* of the matching records and the page of them that page and limit select
SearchResult(f) ==
    LET hits == SelectSeq([i \in 1..CatalogueSize |-> i], LAMBDA i : Hit(i, f))
        offset == (f.page - 1) * f.limit
    IN  [studies |-> SubSeq(hits, offset + 1, Min(offset + f.limit, Len(hits))),
         total |-> Len(hits)]

\* what a request can come back with: the payload of a 200, the payload of
\* the route's catch branch, or no JSON at all (fetch or res.json() throws)
Outcomes == {"ok", "error-payload", "throws"}

\* clearTimeout(debounce) in the effect's cleanup
KeepTimeout(T) == T

ClearTimeout(T) == {}

\* the effect on [search]: the cleanup of the last run, then a new timeout
Debounced(T, f) == ClearTimeout(T) \cup {[left |-> DebounceTicks, filters |-> f]}

(* what is on the screen *)
ShowsEmpty == view.page = "search" /\ ~view.loading /\ Len(view.studies) = 0

ShowsPager ==
    /\ ~view.loading /\ Len(view.studies) > 0
    /\ view.total > view.filters.limit

NextEnabled == ShowsPager /\ ~(view.filters.page * view.filters.limit >= view.total)
PreviousEnabled == ShowsPager /\ view.filters.page # 1

\* setFilters with a new object: the page renders, search is a new callback
\* and the effect runs again
SetFilters(f, event) ==
    /\ hist.changes < MaxChanges
    /\ view' = [view EXCEPT !.filters = f]
    /\ timers' = Debounced(timers, f)
    /\ hist' = [hist EXCEPT !.event = event, !.quiet = 0, !.changes = @ + 1]
    /\ UNCHANGED <<flight, call, store, route, req, sent, resp, pipeVars>>

\* the user types in the search box or picks an option of a select
ChangeFilter ==
    /\ view.page = "search"
    /\ \E k \in DOMAIN FilterChoices : \E v \in FilterChoices[k] :
        /\ v # view.filters[k]
        /\ SetFilters(updateFilter(view.filters, k, v), "change")

\* the user clicks Previous or Next
Paginate ==
    /\ view.page = "search"
    /\ \/ /\ NextEnabled
          /\ SetFilters(updateFilter(view.filters, "page", view.filters.page + 1),
                        "next")
       \/ /\ PreviousEnabled
          /\ SetFilters(updateFilter(view.filters, "page",
                                     IF view.filters.page - 1 > 1
                                     THEN view.filters.page - 1 ELSE 1),
                        "previous")

\* the user clicks Clear all in the filters panel
ClearFilters ==
    /\ view.page = "search" /\ hasActiveFilters
    /\ SetFilters(InitialFilters, "clear")

\* one tick passes; a timeout that is due runs first
Tick ==
    /\ view.page = "search"
    /\ \A t \in timers : t.left > 0
    /\ timers' = {[t EXCEPT !.left = @ - 1] : t \in timers}
    /\ hist' = [hist EXCEPT !.event = "none",
                            !.quiet = IF @ <= DebounceTicks THEN @ + 1 ELSE @]
    /\ UNCHANGED <<view, flight, call, store, route, req, sent, resp, pipeVars>>

\* a timeout runs search(): loading is set and the request leaves with the
\* filters of the render that set the timeout
Search ==
    /\ view.page = "search"
    /\ \E t \in timers :
        /\ t.left = 0
        /\ timers' = timers \ {t}
        /\ view' = [view EXCEPT !.loading = TRUE]
        /\ flight' = flight \cup {[seq |-> hist.issued + 1, filters |-> t.filters]}
        /\ hist' = [hist EXCEPT !.event = "none", !.issued = @ + 1,
                                !.askedIn = hist.changes]
    /\ UNCHANGED <<call, store, route, req, sent, resp, pipeVars>>

\* the rest of search(), after the awaits: a request in flight, any of them,
\* comes back
SearchReturns ==
    /\ view.page = "search"
    /\ \E rq \in flight : \E out \in Outcomes :
        LET data == IF out = "ok" THEN SearchResult(rq.filters)
                    ELSE [studies |-> PgFailure.studies, total |-> PgFailure.total]
        IN  /\ flight' = flight \ {rq}
            /\ view' = IF out = "throws" THEN [view EXCEPT !.loading = FALSE]
                       ELSE [view EXCEPT !.studies = data.studies,
                                         !.total = data.total,
                                         !.loading = FALSE]
            /\ hist' = [hist EXCEPT !.event = "none", !.done = out,
                                    !.failed = @ \/ out # "ok"]
    /\ UNCHANGED <<timers, call, store, route, req, sent, resp, pipeVars>>

\* the page after its first render: nothing loaded, the first timeout set
InitSearchPage ==
    /\ store = {} /\ route = "page" /\ req = NoRequest /\ sent = <<>>
    /\ resp = NoResponse
    /\ InitPipelineVars
    /\ call = NoCall
    /\ view = [page |-> "search", filters |-> InitialFilters, studies |-> <<>>,
               total |-> 0, loading |-> FALSE]
    /\ timers = Debounced({}, InitialFilters)
    /\ flight = {}
    /\ hist = [event |-> "none", quiet |-> 0, changes |-> 0, issued |-> 0,
               askedIn |-> 0 - 1, done |-> "none", failed |-> FALSE]

NextSearchPage ==
    \/ ChangeFilter
    \/ Paginate
    \/ ClearFilters
    \/ Tick
    \/ Search
    \/ SearchReturns

SpecSearchPage == InitSearchPage /\ [][NextSearchPage]_vars

(* Properties of the search page *)

\* C22: clicking Next while it is enabled sets the requested page to
\* page + 1 and clicking Previous sets it to max(1, page - 1), the query and
\* the other filters unchanged; changing any other filter resets the page
\* to 1.
C22_PagerMovesPage ==
    [][/\ (hist'.event = "next" /\ hist'.changes > hist.changes)
            => view'.filters = [view.filters EXCEPT !.page = @ + 1]
       /\ (hist'.event = "previous" /\ hist'.changes > hist.changes)
            => view'.filters = [view.filters EXCEPT
                                    !.page = IF @ - 1 > 1 THEN @ - 1 ELSE 1]
       /\ (hist'.event = "change" /\ hist'.changes > hist.changes)
            => view'.filters.page = 1
      ]_vars

\* C23: once every issued request has completed, the displayed studies and
\* total are those of the request issued for the current filter state: a
\* response to an earlier filter state that arrives late does not replace
\* them.  (Stated for runs in which no request failed.)
C23_LatestRequestShown ==
    (view.page = "search" /\ hist.issued > 0 /\ ~hist.failed
     /\ flight = {} /\ timers = {}) =>
        /\ view.studies = SearchResult(view.filters).studies
        /\ view.total = SearchResult(view.filters).total

\* C25: a search request is issued only after the filter state has stayed
\* unchanged for 300 ms; it carries the filter values of that moment and is
\* the only one for them (a burst of changes less than 300 ms apart issues
\* one request, with the final values); and a filter state that has stayed
\* unchanged for more than 300 ms has had its request issued.
C25_DebouncedSearch ==
    [][/\ hist'.issued > hist.issued =>
            /\ hist.quiet >= DebounceTicks
            /\ \A rq \in flight' \ flight : rq.filters = view.filters
            /\ hist.askedIn # hist.changes
       /\ hist'.quiet > DebounceTicks => hist'.askedIn = hist'.changes
      ]_vars

\* two changes came less than 300 ms after the first render and apart, and
\* the one request issued since carries the values of the second
C25_Witness ==
    /\ view.page = "search"
    /\ hist.changes = 2 /\ hist.issued = 1 /\ hist.askedIn = 2
    /\ \E rq \in flight : rq.filters = view.filters /\ rq.filters.query # <<>>
                          /\ rq.filters.status # <<>>

\* C29: the page shows "No studies found" only when the most recently
\* completed request succeeded with zero matching studies; a request that
\* failed is not presented as an empty result.
C29_EmptyMeansNoMatch ==
    (ShowsEmpty /\ hist.done # "none") => (hist.done = "ok" /\ view.total = 0)

----------------------------------------------------------------------------
(* The filterable dashboard (Dashboard with filters): its filters, the      *)
(* stats it fetches on every change of them, and what it renders.           *)

Dimensions == {"phase", "status", "year", "condition", "sponsor"}

\* useState<Filters>({}): no member set; an unset or cleared member reads <<>>
NoFilters == [d \in Dimensions |-> <<>>]

NoStats == [status |-> 0, keys |-> {}]

\* a setFilter that starts from the empty object
setFilterAlone(prev, key, value) == [NoFilters EXCEPT ![key] = value]

\* setFilters((prev) => ({ ...prev, [key]: value }))
setFilter(prev, key, value) == [prev EXCEPT ![key] = value]

\* setFilters((prev) => ({ ...prev, [key]: null }))
clearFilter(prev, key) == [prev EXCEPT ![key] = <<>>]

\* setFilters({})
clearAllFilters == NoFilters

hasFilters == \E d \in Dimensions : view.filters[d] # <<>>

\* the URL fetchStats builds: one parameter per filter that is set
StatsParams(f) ==
    [kind |-> "GET",
     params |-> [k \in ParamKeys |-> IF k \in Dimensions THEN f[k] ELSE <<>>]]

\* the first return: the skeleton while the first stats are loading; the
\* second: the notice when there are no stats or the stats are an error payload
ShowsSkeleton == view.loading /\ view.stats = NoStats
ShowsNotice == ~ShowsSkeleton /\ (view.stats = NoStats \/ "error" \in view.stats.keys)

\* the third return: badges, cards and charts
ShowsDashboard == view.page = "dashboard" /\ ~ShowsSkeleton /\ ~ShowsNotice

\* the values the charts offer to click in each dimension
Clickable(stats) ==
    [d \in Dimensions |->
        CASE d = "phase" ->
                {stats.byPhase[i].name : i \in
                    {j \in 1..Len(stats.byPhase) :
                        stats.byPhase[j].name \notin {<<"Not Applicable">>, <<"Other">>}}}
          [] d = "status" ->
                {stats.byStatus[i].name : i \in 1..Min(6, Len(stats.byStatus))}
          [] d = "condition" ->
                {stats.topConditions[i].name : i \in 1..Min(8, Len(stats.topConditions))}
          [] d = "year" ->
                {Numeral(stats.byYear[i].year) : i \in
                    {j \in 1..Len(stats.byYear) : stats.byYear[j].year >= YearLow}}
          [] OTHER ->
                {stats.bySponsor[i].name : i \in 1..Len(stats.bySponsor)}]

\* setFilters, the render, the new fetchStats and the effect that calls it:
\* setLoading(true) and the request leaves
SetStatsFilters(f, event, d, v) ==
    /\ hist.changes < MaxChanges
    /\ view' = [view EXCEPT !.filters = f, !.loading = TRUE]
    /\ flight' = flight \cup {[seq |-> hist.issued + 1, filters |-> f]}
    /\ hist' = [hist EXCEPT !.event = event, !.dim = d, !.value = v,
                            !.changes = @ + 1, !.issued = @ + 1]
    /\ UNCHANGED <<timers, call, store, route, req, sent, resp, pipeVars>>

\* the user clicks a bar, a slice or a sponsor button
ClickFacet ==
    /\ ShowsDashboard
    /\ \E d \in Dimensions : \E v \in Clickable(view.stats)[d] :
        SetStatsFilters(setFilter(view.filters, d,
                                  IF view.filters[d] = v THEN <<>> ELSE v),
                        "facet", d, v)

\* the user clicks the x of a filter badge
ClearBadge ==
    /\ ShowsDashboard /\ hasFilters
    /\ \E d \in Dimensions :
        /\ view.filters[d] # <<>>
        /\ SetStatsFilters(clearFilter(view.filters, d), "badge", d, <<>>)

\* the user clicks Clear all
ClearAll ==
    /\ ShowsDashboard /\ hasFilters
    /\ SetStatsFilters(clearAllFilters, "clear-all", "phase", <<>>)

\* what /api/stats answers to the request over the table
StatsAnswers(S, r) ==
    LET conds == StatsConditions(r) IN
    IF AnyError(conds) THEN {StatsFailure}
    ELSE {StatsResponse(r, S, conds, scan) : scan \in Scans(S)}

\* the rest of fetchStats, after the awaits: a request in flight comes back
\* with the route's answer, with the catch branch's payload after a store
\* failure, or with no JSON at all
StatsReturns ==
    /\ view.page = "dashboard"
    /\ \E rq \in flight :
        /\ flight' = flight \ {rq}
        /\ \/ \E data \in StatsAnswers(store, StatsParams(rq.filters)) \cup {StatsFailure} :
                view' = [view EXCEPT !.stats = data, !.loading = FALSE]
           \/ view' = [view EXCEPT !.loading = FALSE]
        /\ hist' = [hist EXCEPT !.event = "none"]
    /\ UNCHANGED <<timers, call, store, route, req, sent, resp, pipeVars>>

\* the table behind the dashboard here: one row the route's tables know all
\* labels of, one with a status and a sponsor class outside them and a
\* condition name that holds a double quote
DashboardTable == {row \in StatsPool : row.nct_id \in {<<"N", "1">>, <<"N", "4">>}}

\* the dashboard after its first render and effect: the first request is out
InitDashboard ==
    /\ store = DashboardTable /\ route = "dashboard" /\ req = NoRequest
    /\ sent = <<>> /\ resp = NoResponse
    /\ InitPipelineVars
    /\ call = NoCall
    /\ view = [page |-> "dashboard", filters |-> NoFilters, stats |-> NoStats,
               loading |-> TRUE]
    /\ timers = {}
    /\ flight = {[seq |-> 1, filters |-> NoFilters]}
    /\ hist = [event |-> "none", dim |-> "phase", value |-> <<>>, changes |-> 0,
               issued |-> 1]

NextDashboard ==
    \/ ClickFacet
    \/ ClearBadge
    \/ ClearAll
    \/ StatsReturns

SpecDashboard == InitDashboard /\ [][NextDashboard]_vars

(* Properties of the dashboard *)

OthersKept(d) == \A e \in Dimensions \ {d} : view'.filters[e] = view.filters[e]

C30_ClearStaysAvailable ==
    (view.page = "dashboard" /\ hasFilters) => ShowsDashboard

============================================================================
